---------------------------- MODULE Spec2Model ----------------------------
(***************************************************************************)
(* BMI270 FIFO frame decoder (src/src/bmi270_fifo.c) and the frame-parsing *)
(* loop of the stage5 FIFO example (src/examples/stage5_fifo/main/main.c). *)
(*                                                                         *)
(* Spec      : a client of the library calls bmi270_parse_fifo_frame       *)
(*             repeatedly on one caller-owned buffer.                      *)
(* LoopSpec  : the "while (remaining > 0)" loop of app_main over one batch.*)
(* FairLoopSpec : LoopSpec with the loop body scheduled (the task runs).   *)
(***************************************************************************)
EXTENDS Integers, Sequences, FiniteSets

(***************************************************************************)
(* Bounds of the model.                                                    *)
(***************************************************************************)
\* a buffer is built from at most MaxChunks frames / stray bytes, the last
\* of which may be cut short
MaxChunks == 3

(***************************************************************************)
(* Frame header bytes and frame sizes (BMI270_FIFO_HEAD_*, *_SIZE) and the *)
(* frame type enumeration bmi270_fifo_frame_type_t.                        *)
(***************************************************************************)
BMI270_FIFO_HEAD_SKIP          == 64
BMI270_FIFO_HEAD_SENSOR_TIME   == 68
BMI270_FIFO_HEAD_CONFIG_CHANGE == 72
BMI270_FIFO_HEAD_ACC           == 132
BMI270_FIFO_HEAD_GYR           == 136
BMI270_FIFO_HEAD_ACC_GYR       == 140

BMI270_FIFO_FRAME_ACC_SIZE     == 7
BMI270_FIFO_FRAME_GYR_SIZE     == 7
BMI270_FIFO_FRAME_ACC_GYR_SIZE == 13

BMI270_FIFO_FRAME_SKIP          == 64
BMI270_FIFO_FRAME_SENSOR_TIME   == 68
BMI270_FIFO_FRAME_CONFIG_CHANGE == 72
BMI270_FIFO_FRAME_ACC           == 132
BMI270_FIFO_FRAME_GYR           == 136
BMI270_FIFO_FRAME_ACC_GYR       == 140
BMI270_FIFO_FRAME_UNKNOWN       == 255

(***************************************************************************)
(* The buffers the model decodes: concatenations of frames, marker bytes   *)
(* and stray (unknown) bytes, possibly ending in the middle of a frame.    *)
(***************************************************************************)
\* 6 payload bytes: x, y, z, low byte first.  PayA is (1, -32768, 32767),
\* PayB is (-1, 2, 256): both exercise the byte order and the sign bit.
PayA == <<1, 0, 0, 128, 255, 127>>
PayB == <<255, 255, 2, 0, 0, 1>>

UnknownBytes == {0, 255}

DataChunks ==
    {<<BMI270_FIFO_HEAD_ACC>> \o PayA,
     <<BMI270_FIFO_HEAD_GYR>> \o PayB,
     <<BMI270_FIFO_HEAD_ACC_GYR>> \o PayA \o PayB,
     <<BMI270_FIFO_HEAD_ACC_GYR>> \o PayB \o PayA}

MarkerChunks ==
    {<<BMI270_FIFO_HEAD_SKIP>>, <<BMI270_FIFO_HEAD_SENSOR_TIME>>,
     <<BMI270_FIFO_HEAD_CONFIG_CHANGE>>}

Chunks == DataChunks \cup MarkerChunks \cup {<<b>> : b \in UnknownBytes}

ChunkPrefixes == UNION {{SubSeq(c, 1, n) : n \in 0..Len(c)} : c \in Chunks}

RECURSIVE Concats(_)
Concats(n) ==
    IF n = 0 THEN {<<>>}
    ELSE LET prev == Concats(n - 1)
         IN  prev \cup {s \o c : s \in prev, c \in Chunks}

Buffers == {s \o p : s \in Concats(MaxChunks - 1), p \in ChunkPrefixes}

\* what an output frame the caller did not initialise may hold
RawZero == [x |-> 0, y |-> 0, z |-> 0]
RawJunk == [x |-> 7, y |-> 7, z |-> 7]
UninitFrames ==
    {[type |-> 0, acc |-> RawZero, gyr |-> RawZero],
     [type |-> BMI270_FIFO_FRAME_ACC_GYR, acc |-> RawJunk, gyr |-> RawJunk]}

\* what a read past the end of the buffer may return
OobBytes == {0, BMI270_FIFO_HEAD_ACC_GYR}

VARIABLES
    fifo_buffer,   \* the caller-owned byte buffer
    buffer_ptr,    \* *buffer, as an offset from the start of fifo_buffer
    remaining,     \* *length (uint16_t)
    frame,         \* *frame, the output frame
    ret,           \* value returned by the last call
    pc,            \* position of the caller
    entry,         \* the arguments of the last call, as they were at entry
    reads,         \* indices data[i] the last call read
    delivered,     \* frames returned with ESP_OK so far, in order
    counts,        \* frame counters of app_main
    dev,           \* the device handle (bmi270_dev_t)
    regs,          \* the chip's FIFO and interrupt-map registers
    call,          \* the driver call in progress and its result
    bus,           \* the bus: the transaction in progress
    gpio_evt_queue,\* number of wake tokens in the interrupt queue
    hist           \* locals of app_main and history of the run

hwvars == <<dev, regs, call, bus, gpio_evt_queue, hist>>

vars == <<fifo_buffer, buffer_ptr, remaining, frame, ret, pc, entry, reads,
          delivered, counts, dev, regs, call, bus, gpio_evt_queue, hist>>


(***************************************************************************)
(* C arithmetic used by the decoder.                                       *)
(***************************************************************************)
RECURSIVE BitOr(_, _)
\* a | b on non-negative ints
BitOr(a, b) ==
    IF a = 0 THEN b
    ELSE IF b = 0 THEN a
    ELSE (IF a % 2 = 1 \/ b % 2 = 1 THEN 1 ELSE 0)
         + 2 * BitOr(a \div 2, b \div 2)

\* mutant: the value is kept unsigned (no conversion to int16_t)
ToInt16_unsigned(v) == v

\* (int16_t)v for v in 0..65535
ToInt16(v) == IF v >= 32768 THEN v - 65536 ELSE v

\* (uint16_t)v
ToUint16(v) == v % 65536

\* data[i], where data = *buffer; a read past the buffer yields oob
ReadByte(buf, ptr, i, oob) ==
    IF ptr + i < Len(buf) THEN buf[ptr + i + 1] ELSE oob

\* (int16_t)((data[i + 1] << 8) | data[i])
ParseAxis(buf, ptr, i, oob) ==
    ToInt16(BitOr(ReadByte(buf, ptr, i + 1, oob) * 256,
                  ReadByte(buf, ptr, i, oob)))

\* the three axes stored from data[i] on
ParseXYZ(buf, ptr, i, oob) ==
    [x |-> ParseAxis(buf, ptr, i, oob),
     y |-> ParseAxis(buf, ptr, i + 2, oob),
     z |-> ParseAxis(buf, ptr, i + 4, oob)]

(***************************************************************************)
(* bmi270_parse_fifo_frame, piece by piece.                                *)
(***************************************************************************)
\* mutant: the empty-cursor check is missing
NoMoreData_never(length) == FALSE

\* if (*length == 0) return ESP_ERR_NOT_FOUND;
NoMoreData(length) == length = 0

\* mutant: the size check is off by one
Incomplete_offByOne(rem, size) == rem < size - 1

\* the "remaining < BMI270_FIFO_FRAME_*_SIZE" checks of the data frames
Incomplete(rem, size) == rem < size

\* mutant: the combined frame is given the size of a single-sensor frame
FrameSizeOf_combinedAsSingle(header) ==
    CASE header = BMI270_FIFO_HEAD_ACC     -> BMI270_FIFO_FRAME_ACC_SIZE
      [] header = BMI270_FIFO_HEAD_GYR     -> BMI270_FIFO_FRAME_GYR_SIZE
      [] header = BMI270_FIFO_HEAD_ACC_GYR -> BMI270_FIFO_FRAME_GYR_SIZE
      [] OTHER                             -> 1

\* frame_size assigned by each case of the switch
FrameSizeOf(header) ==
    CASE header = BMI270_FIFO_HEAD_ACC     -> BMI270_FIFO_FRAME_ACC_SIZE
      [] header = BMI270_FIFO_HEAD_GYR     -> BMI270_FIFO_FRAME_GYR_SIZE
      [] header = BMI270_FIFO_HEAD_ACC_GYR -> BMI270_FIFO_FRAME_ACC_GYR_SIZE
      [] OTHER                             -> 1

\* mutant: the accelerometer case also clears the gyroscope fields
ParseAcc_clearsGyr(buf, ptr, f, oob) ==
    [f EXCEPT !.acc = ParseXYZ(buf, ptr, 1, oob), !.gyr = RawZero]

\* case BMI270_FIFO_HEAD_ACC: the fields written
ParseAcc(buf, ptr, f, oob) ==
    [f EXCEPT !.acc = ParseXYZ(buf, ptr, 1, oob)]

\* case BMI270_FIFO_HEAD_GYR: the fields written
ParseGyr(buf, ptr, f, oob) ==
    [f EXCEPT !.gyr = ParseXYZ(buf, ptr, 1, oob)]

\* mutant: accelerometer read first, gyroscope second
ParseAccGyr_swapped(buf, ptr, f, oob) ==
    [f EXCEPT !.acc = ParseXYZ(buf, ptr, 1, oob),
              !.gyr = ParseXYZ(buf, ptr, 7, oob)]

\* case BMI270_FIFO_HEAD_ACC_GYR: gyroscope first, accelerometer second
ParseAccGyr(buf, ptr, f, oob) ==
    [f EXCEPT !.gyr = ParseXYZ(buf, ptr, 1, oob),
              !.acc = ParseXYZ(buf, ptr, 7, oob)]

\* mutant: the CONFIG_CHANGE case label is missing
IsSpecialHeader_noConfigChange(header) ==
    header \in {BMI270_FIFO_HEAD_SKIP, BMI270_FIFO_HEAD_SENSOR_TIME}

\* the three special headers
IsSpecialHeader(header) ==
    header \in {BMI270_FIFO_HEAD_SKIP, BMI270_FIFO_HEAD_SENSOR_TIME,
                BMI270_FIFO_HEAD_CONFIG_CHANGE}

\* frame->type = BMI270_FIFO_FRAME_SKIP for every special frame
SpecialFrameType(header) == BMI270_FIFO_FRAME_SKIP

\* mutant: the length is decremented but the pointer is not advanced
AdvanceCursor_lengthOnly(ptr, length, frame_size) ==
    [ptr |-> ptr, length |-> (length - frame_size) % 65536]

\* mutant: the pointer is advanced but the length is not decremented
AdvanceCursor_ptrOnly(ptr, length, frame_size) ==
    [ptr |-> ptr + frame_size, length |-> length]

\* *buffer += frame_size; *length -= frame_size;
AdvanceCursor(ptr, length, frame_size) ==
    [ptr |-> ptr + frame_size, length |-> ToUint16(length - frame_size)]

\* mutant: the unknown header is skipped before the error is returned
UnknownHeaderCursor_skipsOne(ptr, length) == AdvanceCursor(ptr, length, 1)

\* default: the cursor an unknown header leaves behind (the function returns
\* before the advance at the end of the switch)
UnknownHeaderCursor(ptr, length) == [ptr |-> ptr, length |-> length]

\* mutant: the fields are parsed before the size check is made
DataFrameCase_parseFirst(ptr, length, typed, parsed, size, nread) ==
    IF Incomplete(length, size)
    THEN [ret |-> "ESP_ERR_INVALID_SIZE", ptr |-> ptr, length |-> length,
          frame |-> parsed, reads |-> 0..nread]
    ELSE LET c == AdvanceCursor(ptr, length, size)
         IN  [ret |-> "ESP_OK", ptr |-> c.ptr, length |-> c.length,
              frame |-> parsed, reads |-> 0..nread]

\* one data-frame case: size check, field parse, then the common advance
DataFrameCase(ptr, length, typed, parsed, size, nread) ==
    IF Incomplete(length, size)
    THEN [ret |-> "ESP_ERR_INVALID_SIZE", ptr |-> ptr, length |-> length,
          frame |-> typed, reads |-> {0}]
    ELSE LET c == AdvanceCursor(ptr, length, size)
         IN  [ret |-> "ESP_OK", ptr |-> c.ptr, length |-> c.length,
              frame |-> parsed, reads |-> 0..nread]

\* esp_err_t bmi270_parse_fifo_frame(buffer, length, frame)
\*   valid: none of buffer, *buffer, length, frame is NULL
\*   buf, ptr: *buffer;  length: *length;  f: *frame at entry
bmi270_parse_fifo_frame(valid, buf, ptr, length, f, oob) ==
    IF ~valid
    THEN [ret |-> "ESP_ERR_INVALID_ARG", ptr |-> ptr, length |-> length,
          frame |-> f, reads |-> {}]
    ELSE IF NoMoreData(length)
    THEN [ret |-> "ESP_ERR_NOT_FOUND", ptr |-> ptr, length |-> length,
          frame |-> f, reads |-> {}]
    ELSE
      LET header == ReadByte(buf, ptr, 0, oob)
          typed  == [f EXCEPT !.type = header]
      IN  CASE header = BMI270_FIFO_HEAD_ACC ->
                 DataFrameCase(ptr, length, typed,
                               ParseAcc(buf, ptr, typed, oob),
                               FrameSizeOf(header), 6)
            [] header = BMI270_FIFO_HEAD_GYR ->
                 DataFrameCase(ptr, length, typed,
                               ParseGyr(buf, ptr, typed, oob),
                               FrameSizeOf(header), 6)
            [] header = BMI270_FIFO_HEAD_ACC_GYR ->
                 DataFrameCase(ptr, length, typed,
                               ParseAccGyr(buf, ptr, typed, oob),
                               FrameSizeOf(header), 12)
            [] IsSpecialHeader(header) ->
                 LET c == AdvanceCursor(ptr, length, FrameSizeOf(header))
                 IN  [ret |-> "ESP_OK", ptr |-> c.ptr, length |-> c.length,
                      frame |-> [typed EXCEPT !.type = SpecialFrameType(header)],
                      reads |-> {0}]
            [] OTHER ->
                 LET c == UnknownHeaderCursor(ptr, length)
                 IN  [ret |-> "ESP_ERR_INVALID_RESPONSE",
                      ptr |-> c.ptr, length |-> c.length,
                      frame |-> [typed EXCEPT !.type = BMI270_FIFO_FRAME_UNKNOWN],
                      reads |-> {0}]

(***************************************************************************)
(* The device handle, the chip registers and the bus at rest.              *)
(***************************************************************************)
BMI270_REG_FIFO_LENGTH_0 == 36
BMI270_REG_FIFO_DATA == 38
BMI270_REG_FIFO_WTM_0 == 70
BMI270_REG_FIFO_WTM_1 == 71
BMI270_REG_FIFO_CONFIG_0 == 72
BMI270_REG_FIFO_CONFIG_1 == 73
BMI270_REG_INT_MAP_DATA == 88
BMI270_REG_CMD == 126

\* the registers whose content the model keeps
ChipRegs == {BMI270_REG_FIFO_WTM_0, BMI270_REG_FIFO_WTM_1,
             BMI270_REG_FIFO_CONFIG_0, BMI270_REG_FIFO_CONFIG_1,
             BMI270_REG_INT_MAP_DATA}

\* FIFO_CONFIG_0/1 hold a set of flag names: the OR of distinct bit masks
ResetRegs == [r \in ChipRegs |->
                IF r \in {BMI270_REG_FIFO_CONFIG_0, BMI270_REG_FIFO_CONFIG_1}
                THEN {} ELSE 0]

\* bmi270_dev_t: the two flags, as they are before bmi270_spi_init
NewDev == [initialized |-> FALSE, init_complete |-> FALSE]

NoTx == [op |-> "none", reg |-> 0, val |-> 0, len |-> 0]

\* polls: the status reads the call has made; log: the transactions it has
\* begun, in order
NoCall == [fn |-> "none", arg |-> <<>>, step |-> 0, last |-> "ESP_OK",
           data |-> 0, ret |-> "none", out |-> 0, polls |-> 0, log |-> <<>>]

\* phase: idle, xfer (on the wire), settle (the delay after the transfer);
\* active: transactions begun and not finished; isr: begun by the ISR;
\* overlap: one was begun while another was in progress; delay: the settle
\* delay of the transaction in progress, in microseconds
BusIdle == [phase |-> "idle", tx |-> NoTx, active |-> 0, isr |-> 0,
            overlap |-> FALSE, delay |-> 0]

\* ncalls: calls made by the client of the FIFO functions; the rest is
\* app_main: which example runs, its local fifo_length, whether the ISR is
\* attached, and what has happened so far; batch_len: what the length query
\* of the batch in progress reported (-1: none succeeded), batch_read: its
\* bulk read succeeded; marks: calls of bmi270_set_init_complete so far,
\* init_ok: bmi270_init has read INIT_OK from INTERNAL_STATUS; regs0: the
\* registers as they were when the client made the call in progress;
\* i, num_frames, valid_count: the locals of parse_fifo_buffer of the step2
\* example; queries: calls of bmi270_get_fifo_length app_main has made since
\* it last called xQueueReceive, dropped: xQueueSendFromISR found the queue
\* full since then; last_cfg: the config of the client's last call when that
\* call was a bmi270_configure_fifo that succeeded (<<>> otherwise);
\* step2_out: the samples the step2 parser printed for the buffer the
\* library decoder goes through after it
NoHist == [ncalls |-> 0, app |-> "none", fifo_length |-> 0,
           isr_attached |-> FALSE, init_ret |-> "none", wake |-> "none",
           polled |-> FALSE, owed |-> FALSE, waited |-> FALSE,
           signaled |-> FALSE, edge |-> "none",
           batch_len |-> -1, batch_read |-> FALSE,
           marks |-> 0, init_ok |-> FALSE, regs0 |-> ResetRegs,
           i |-> 0, num_frames |-> 0, valid_count |-> 0,
           queries |-> 0, dropped |-> FALSE, last_cfg |-> <<>>,
           step2_out |-> <<>>]

HwIdle ==
    /\ dev = NewDev
    /\ regs = ResetRegs
    /\ call = NoCall
    /\ bus = BusIdle
    /\ gpio_evt_queue = 0
    /\ hist = NoHist

(***************************************************************************)
(* A client of the library: any number of calls on one buffer.             *)
(***************************************************************************)
NoEntry(f) == [called |-> FALSE, valid |-> TRUE, ptr |-> 0, length |-> 0,
               frame |-> f]

ZeroCounts == [frame_count |-> 0, acc_frames |-> 0, gyr_frames |-> 0,
               acc_gyr_frames |-> 0, other_frames |-> 0]

Init ==
    /\ fifo_buffer \in Buffers
    /\ buffer_ptr = 0
    /\ remaining = Len(fifo_buffer)
    /\ frame \in UninitFrames
    /\ ret = "none"
    /\ pc = "call"
    /\ entry = NoEntry(frame)
    /\ reads = {}
    /\ delivered = <<>>
    /\ counts = ZeroCounts
    /\ HwIdle

\* ret = bmi270_parse_fifo_frame(&buffer_ptr, &remaining, &frame), the
\* output frame being the caller's own object, reused from call to call
ParseCall ==
    /\ pc = "call"
    /\ \E valid \in BOOLEAN, oob \in OobBytes :
         \E r \in {bmi270_parse_fifo_frame(valid, fifo_buffer, buffer_ptr,
                                            remaining, frame, oob)} :
             /\ entry' = [called |-> TRUE, valid |-> valid, ptr |-> buffer_ptr,
                          length |-> remaining, frame |-> frame]
             /\ ret' = r.ret
             /\ buffer_ptr' = r.ptr
             /\ remaining' = r.length
             /\ frame' = r.frame
             /\ reads' = r.reads
             /\ delivered' = IF r.ret = "ESP_OK"
                             THEN Append(delivered, r.frame) ELSE delivered
    /\ UNCHANGED <<fifo_buffer, pc, counts>>
    /\ UNCHANGED hwvars

Next == ParseCall

Spec == Init /\ [][Next]_vars

(***************************************************************************)
(* app_main of examples/stage5_fifo: the frame-parsing loop of one batch.  *)
(***************************************************************************)
\* the frame-type counters and the ACC+GYR frame_count
CountFrame(c, f) ==
    LET c1 == IF f.type = BMI270_FIFO_FRAME_ACC
                THEN [c EXCEPT !.acc_frames = @ + 1]
              ELSE IF f.type = BMI270_FIFO_FRAME_GYR
                THEN [c EXCEPT !.gyr_frames = @ + 1]
              ELSE IF f.type = BMI270_FIFO_FRAME_ACC_GYR
                THEN [c EXCEPT !.acc_gyr_frames = @ + 1]
              ELSE [c EXCEPT !.other_frames = @ + 1]
    IN  IF f.type = BMI270_FIFO_FRAME_ACC_GYR
        THEN [c1 EXCEPT !.frame_count = @ + 1] ELSE c1

\* where the loop goes after a call that did not return ESP_OK
AfterParseError(r) == IF r = "ESP_ERR_NOT_FOUND" THEN "done" ELSE "loop"

LoopInit ==
    /\ fifo_buffer \in Buffers
    /\ buffer_ptr = 0
    /\ remaining = Len(fifo_buffer)
    /\ frame = [type |-> 0, acc |-> RawZero, gyr |-> RawZero]
    /\ ret = "none"
    /\ pc = "loop"
    /\ entry = NoEntry(frame)
    /\ reads = {}
    /\ delivered = <<>>
    /\ counts = ZeroCounts
    /\ HwIdle

\* one iteration of "while (remaining > 0)": frame is a fresh, uninitialised
\* local of the loop body
ParseFrames ==
    /\ pc = "loop"
    /\ remaining > 0
    /\ \E f0 \in UninitFrames, oob \in OobBytes :
         \E r \in {bmi270_parse_fifo_frame(TRUE, fifo_buffer, buffer_ptr,
                                            remaining, f0, oob)} :
             /\ entry' = [called |-> TRUE, valid |-> TRUE, ptr |-> buffer_ptr,
                          length |-> remaining, frame |-> f0]
             /\ ret' = r.ret
             /\ buffer_ptr' = r.ptr
             /\ remaining' = r.length
             /\ frame' = r.frame
             /\ reads' = r.reads
             /\ IF r.ret # "ESP_OK"
                THEN /\ pc' = AfterParseError(r.ret)
                     /\ UNCHANGED <<delivered, counts>>
                ELSE /\ pc' = "loop"
                     /\ counts' = CountFrame(counts, r.frame)
                     /\ delivered' = Append(delivered, r.frame)
    /\ UNCHANGED fifo_buffer
    /\ UNCHANGED hwvars

\* the loop condition fails: the batch is finished
LoopEnd ==
    /\ pc = "loop"
    /\ ~(remaining > 0)
    /\ pc' = "done"
    /\ UNCHANGED <<fifo_buffer, buffer_ptr, remaining, frame, ret, entry,
                   reads, delivered, counts>>
    /\ UNCHANGED hwvars

LoopNext == ParseFrames \/ LoopEnd

LoopSpec == LoopInit /\ [][LoopNext]_vars

\* the consumer is a running FreeRTOS task: its loop keeps being scheduled
FairLoopSpec == LoopSpec /\ WF_vars(LoopNext)

(***************************************************************************)
(* Properties.  The expected values are computed from the buffer bytes by  *)
(* the frame table of the specification, not by the decoder's operators.   *)
(***************************************************************************)
\* byte i of the cursor the last call was given (-1 outside the buffer)
EntryByte(i) ==
    IF entry.ptr + i < Len(fifo_buffer)
    THEN fifo_buffer[entry.ptr + i + 1] ELSE -1

\* little-endian two's-complement 16-bit value of bytes i, i+1 of seq b
\* (1-based position i)
S16At(b, i) == ((b[i] + 256 * b[i + 1] + 32768) % 65536) - 32768

XYZAt(b, i) == [x |-> S16At(b, i), y |-> S16At(b, i + 2), z |-> S16At(b, i + 4)]

\* the last call was a call with usable arguments
Decoded == entry.called /\ entry.valid

DataHeaders == {132, 136, 140}
MarkerHeaders == {64, 68, 72}

\* frame length by header, as the frame table states it
TableSize(h) ==
    CASE h = 132 -> 7 [] h = 136 -> 7 [] h = 140 -> 13 [] OTHER -> 1

\* C1: a call on a cursor that starts with 0x8C and has at least 13 bytes
\* returns ESP_OK with gyr taken from bytes 1..6 and acc from bytes 7..12,
\* each axis little-endian signed 16-bit.
C1_CombinedFrameFieldOrder ==
    (Decoded /\ entry.length >= 13 /\ EntryByte(0) = 140) =>
        /\ ret = "ESP_OK"
        /\ frame.gyr = XYZAt(fifo_buffer, entry.ptr + 2)
        /\ frame.acc = XYZAt(fifo_buffer, entry.ptr + 8)

C1_Witness ==
    /\ Decoded /\ entry.length >= 13 /\ EntryByte(0) = 140
    /\ entry.ptr > 0
    /\ ret = "ESP_OK"
    /\ frame.gyr = [x |-> -1, y |-> 2, z |-> 256]
    /\ frame.acc = [x |-> 1, y |-> -32768, z |-> 32767]

\* C2: a call on a cursor whose first byte is no known header returns the
\* unknown-header error and advances the cursor by exactly one byte.
C2_UnknownHeaderAdvancesOne ==
    (Decoded /\ entry.length > 0
       /\ EntryByte(0) \notin (DataHeaders \cup MarkerHeaders)) =>
        /\ ret = "ESP_ERR_INVALID_RESPONSE"
        /\ buffer_ptr = entry.ptr + 1
        /\ remaining = entry.length - 1

\* C3: a call on a data-frame header with fewer bytes left than the frame
\* needs returns ESP_ERR_INVALID_SIZE and leaves pointer and length alone.
C3_TruncatedLeavesCursor ==
    (Decoded /\ entry.length > 0 /\ EntryByte(0) \in DataHeaders
       /\ entry.length < TableSize(EntryByte(0))) =>
        /\ ret = "ESP_ERR_INVALID_SIZE"
        /\ buffer_ptr = entry.ptr
        /\ remaining = entry.length

C3_Witness ==
    /\ Decoded /\ EntryByte(0) = 140 /\ entry.length = 12
    /\ entry.ptr > 0
    /\ ret = "ESP_ERR_INVALID_SIZE"
    /\ buffer_ptr = entry.ptr

\* C4: the frame-parsing loop of the consumer task leaves the loop for
\* every finite buffer.
C4_LoopTerminates == <>(pc = "done")

\* the buffer is k back-to-back 0x8C frames and nothing else
AllCombined(b) ==
    /\ Len(b) % 13 = 0
    /\ \A j \in 0..(Len(b) \div 13 - 1) : b[13 * j + 1] = 140

\* the j-th (1-based) 0x8C frame of such a buffer, as the table reads it
CombinedFrame(b, j) ==
    [type |-> 140,
     gyr |-> XYZAt(b, 13 * (j - 1) + 2),
     acc |-> XYZAt(b, 13 * (j - 1) + 8)]

\* C5: on a buffer of k back-to-back 0x8C frames the successful calls are
\* exactly the k ACC-AND-GYR frames in buffer order, and the call after the
\* k-th returns ESP_ERR_NOT_FOUND with remaining length 0.
C5_CombinedFramesThenNotFound ==
    AllCombined(fifo_buffer) =>
        LET k == Len(fifo_buffer) \div 13
        IN  /\ Len(delivered) <= k
            /\ \A j \in 1..Len(delivered) :
                   delivered[j] = CombinedFrame(fifo_buffer, j)
            /\ (Decoded /\ entry.length > 0) => ret = "ESP_OK"
            /\ (Decoded /\ entry.ptr = 13 * k) =>
                   /\ ret = "ESP_ERR_NOT_FOUND"
                   /\ remaining = 0
                   /\ Len(delivered) = k
            /\ (ret = "ESP_ERR_NOT_FOUND") => Len(delivered) = k

C5_Witness ==
    /\ AllCombined(fifo_buffer)
    /\ Len(fifo_buffer) >= 26
    /\ Decoded
    /\ ret = "ESP_ERR_NOT_FOUND"
    /\ remaining = 0
    /\ Len(delivered) = Len(fifo_buffer) \div 13

\* C6: every call that returns ESP_OK advanced the cursor by exactly the
\* frame length of the header it found: 7, 7, 13 for 0x84, 0x88, 0x8C and 1
\* for 0x40, 0x44, 0x48.
C6_SuccessAdvancesByFrameSize ==
    (Decoded /\ ret = "ESP_OK") =>
        /\ EntryByte(0) \in (DataHeaders \cup MarkerHeaders)
        /\ buffer_ptr = entry.ptr + TableSize(EntryByte(0))
        /\ remaining = entry.length - TableSize(EntryByte(0))

C6_Witness ==
    /\ Decoded /\ ret = "ESP_OK"
    /\ EntryByte(0) = 68
    /\ entry.ptr >= 13
    /\ buffer_ptr = entry.ptr + 1
    /\ remaining = 7

\* b, from offset i on, is a concatenation of complete frames with known
\* headers
RECURSIVE WellFormedFrom(_, _)
WellFormedFrom(b, i) ==
    IF i = Len(b) THEN TRUE
    ELSE IF i > Len(b) THEN FALSE
    ELSE /\ b[i + 1] \in (DataHeaders \cup MarkerHeaders)
         /\ WellFormedFrom(b, i + TableSize(b[i + 1]))

\* the sample a data frame at offset i of b carries, as the table reads it
TableSample(b, i) ==
    CASE b[i + 1] = 132 -> [type |-> 132, acc |-> XYZAt(b, i + 2)]
      [] b[i + 1] = 136 -> [type |-> 136, gyr |-> XYZAt(b, i + 2)]
      [] OTHER          -> [type |-> 140, gyr |-> XYZAt(b, i + 2),
                            acc |-> XYZAt(b, i + 8)]

\* the data frames of a well-formed b from offset i on, in buffer order
RECURSIVE TableDataFrames(_, _)
TableDataFrames(b, i) ==
    IF i >= Len(b) THEN <<>>
    ELSE IF b[i + 1] \in DataHeaders
         THEN <<TableSample(b, i)>> \o TableDataFrames(b, i + TableSize(b[i + 1]))
         ELSE TableDataFrames(b, i + 1)

\* the sample a returned frame carries: only the fields its kind defines
SampleOf(f) ==
    CASE f.type = 132 -> [type |-> 132, acc |-> f.acc]
      [] f.type = 136 -> [type |-> 136, gyr |-> f.gyr]
      [] OTHER        -> [type |-> f.type, gyr |-> f.gyr, acc |-> f.acc]

IsDataFrame(f) == f.type \in DataHeaders

\* the data frames the loop has been handed so far
DeliveredData ==
    LET d == SelectSeq(delivered, IsDataFrame)
    IN  [j \in 1..Len(d) |-> SampleOf(d[j])]

\* C7: on a buffer that is a concatenation of complete frames with known
\* headers the loop of app_main meets no error, every iteration consumes
\* bytes, the data frames handed to the loop are those of the buffer, in
\* order and with their values, and the loop ends with nothing remaining and
\* every data frame handed over exactly once.
C7_MarkersNotFatal ==
    WellFormedFrom(fifo_buffer, 0) =>
        LET e == TableDataFrames(fifo_buffer, 0)
            d == DeliveredData
        IN  /\ ret \in {"none", "ESP_OK"}
            /\ entry.called => remaining < entry.length
            /\ Len(d) <= Len(e)
            /\ \A j \in 1..Len(d) : d[j] = e[j]
            /\ (pc = "done") => (d = e /\ remaining = 0)

C7_Witness ==
    /\ WellFormedFrom(fifo_buffer, 0)
    /\ pc = "done"
    /\ Len(fifo_buffer) > 0
    /\ fifo_buffer[1] \in MarkerHeaders
    /\ Len(delivered) = 3
    /\ Len(DeliveredData) = 1
    /\ counts.other_frames = 2

\* the kind the frame table gives a header byte
TableKind(h) == IF h \in (DataHeaders \cup MarkerHeaders) THEN h ELSE 255

\* C8: after a call that read a header byte, the output frame's type is the
\* kind of that header: 0x40 SKIP, 0x44 SENSOR-TIME, 0x48 CONFIG-CHANGE,
\* 0x84 ACC-ONLY, 0x88 GYR-ONLY, 0x8C ACC-AND-GYR, anything else UNKNOWN.
C8_FrameKindByHeader ==
    (Decoded /\ entry.length > 0) => frame.type = TableKind(EntryByte(0))

\* C9: a call with remaining length 0 returns ESP_ERR_NOT_FOUND, reads no
\* buffer byte and changes neither the pointer, the length nor the frame.
C9_EmptyCursorNotFound ==
    (Decoded /\ entry.length = 0) =>
        /\ ret = "ESP_ERR_NOT_FOUND"
        /\ reads = {}
        /\ buffer_ptr = entry.ptr
        /\ remaining = 0
        /\ frame = entry.frame

C9_Witness ==
    /\ Decoded /\ entry.length = 0
    /\ entry.ptr = 13
    /\ ret = "ESP_ERR_NOT_FOUND"
    /\ frame.type = 140

\* C10: over any sequence of calls the remaining length stays within
\* 0..initial length and never grows, the pointer never moves back, and
\* bytes consumed plus bytes remaining is the initial buffer length (the
\* pointer moved by what the length lost).
C10_CursorMonotonic ==
    /\ remaining \in 0..Len(fifo_buffer)
    /\ buffer_ptr + remaining = Len(fifo_buffer)
    /\ entry.called =>
         /\ remaining <= entry.length
         /\ buffer_ptr >= entry.ptr
         /\ buffer_ptr - entry.ptr = entry.length - remaining

C10_Witness ==
    /\ entry.called
    /\ entry.ptr > 0
    /\ remaining < entry.length
    /\ remaining > 0
    /\ buffer_ptr = entry.ptr + 13

\* C11: a call on a complete ACC-ONLY (0x84) or GYR-ONLY (0x88) frame
\* returns ESP_OK with each axis the two's-complement 16-bit value of the
\* byte pairs [1:2], [3:4], [5:6] (low byte first), hence in -32768..32767.
C11_SingleSensorAxes ==
    (Decoded /\ entry.length >= 7 /\ EntryByte(0) \in {132, 136}) =>
        LET got == IF EntryByte(0) = 132 THEN frame.acc ELSE frame.gyr
        IN  /\ ret = "ESP_OK"
            /\ got = XYZAt(fifo_buffer, entry.ptr + 2)
            /\ \A v \in {got.x, got.y, got.z} : v \in -32768..32767

C11_Witness ==
    /\ Decoded /\ entry.length >= 7 /\ EntryByte(0) = 132
    /\ entry.ptr > 0
    /\ ret = "ESP_OK"
    /\ frame.acc = [x |-> 1, y |-> -32768, z |-> 32767]

(***************************************************************************)
(* The FIFO functions of bmi270_fifo.c, as the sequence of bus             *)
(* transactions each one issues.  A function is asked, at its step-th      *)
(* transaction, what it does next, given the result (last) and the data    *)
(* of the transaction before: it issues a transaction or returns.          *)
(***************************************************************************)
BMI270_FIFO_SIZE == 2048
BMI270_INT_PIN_1 == 0
BMI270_INT_PIN_2 == 1

RECURSIVE BitAnd(_, _)
BitAnd(a, b) ==
    IF a = 0 \/ b = 0 THEN 0
    ELSE (a % 2) * (b % 2) + 2 * BitAnd(a \div 2, b \div 2)

WriteTx(reg, val) == [op |-> "write", reg |-> reg, val |-> val, len |-> 1]
ReadTx(reg) == [op |-> "read", reg |-> reg, val |-> 0, len |-> 1]
BurstTx(reg, n) == [op |-> "read_burst", reg |-> reg, val |-> 0, len |-> n]

Issue(tx) == [tx |-> tx, ret |-> "pending", wrote |-> FALSE, out |-> 0]
Return(r) == [tx |-> NoTx, ret |-> r, wrote |-> FALSE, out |-> 0]
ReturnValue(v) == [tx |-> NoTx, ret |-> "ESP_OK", wrote |-> TRUE, out |-> v]

\* fifo_config_0
FifoConfig0(config) ==
    IF config.stop_on_full THEN {"BMI270_FIFO_STOP_ON_FULL"} ELSE {}

\* mutant: the enable bits are ORed into what the register holds
FifoConfig1_merged(config) ==
    regs[BMI270_REG_FIFO_CONFIG_1]
    \cup (IF config.acc_enable THEN {"BMI270_FIFO_ACC_EN"} ELSE {})
    \cup (IF config.gyr_enable THEN {"BMI270_FIFO_GYR_EN"} ELSE {})
    \cup (IF config.header_enable THEN {"BMI270_FIFO_HEADER_EN"} ELSE {})

\* fifo_config_1
FifoConfig1(config) ==
    (IF config.acc_enable THEN {"BMI270_FIFO_ACC_EN"} ELSE {})
    \cup (IF config.gyr_enable THEN {"BMI270_FIFO_GYR_EN"} ELSE {})
    \cup (IF config.header_enable THEN {"BMI270_FIFO_HEADER_EN"} ELSE {})

\* mutant: the watermark is written as given
WatermarkValue_unclamped(watermark) == watermark

\* watermark_value, after the clamp to max_watermark
WatermarkValue(watermark) == IF watermark > 2047 THEN 2047 ELSE watermark

\* mutant: the watermark registers are written even for a watermark of 0
bmi270_configure_fifo_alwaysWtm(devp, cfgp, config, step, last) ==
    IF ~devp \/ ~cfgp THEN Return("ESP_ERR_INVALID_ARG")
    ELSE IF last # "ESP_OK" THEN Return(last)
    ELSE IF step = 0
      THEN Issue(WriteTx(BMI270_REG_FIFO_CONFIG_0, FifoConfig0(config)))
    ELSE IF step = 1
      THEN Issue(WriteTx(BMI270_REG_FIFO_CONFIG_1, FifoConfig1(config)))
    ELSE IF step = 2
      THEN Issue(WriteTx(BMI270_REG_FIFO_WTM_0,
                         BitAnd(WatermarkValue(config.watermark), 255)))
    ELSE IF step = 3
      THEN Issue(WriteTx(BMI270_REG_FIFO_WTM_1,
                         BitAnd(WatermarkValue(config.watermark) \div 256, 31)))
    ELSE Return("ESP_OK")

bmi270_configure_fifo(devp, cfgp, config, step, last) ==
    IF ~devp \/ ~cfgp THEN Return("ESP_ERR_INVALID_ARG")
    ELSE IF last # "ESP_OK" THEN Return(last)
    ELSE IF step = 0
      THEN Issue(WriteTx(BMI270_REG_FIFO_CONFIG_0, FifoConfig0(config)))
    ELSE IF step = 1
      THEN Issue(WriteTx(BMI270_REG_FIFO_CONFIG_1, FifoConfig1(config)))
    ELSE IF config.watermark > 0 /\ step = 2
      THEN Issue(WriteTx(BMI270_REG_FIFO_WTM_0,
                         BitAnd(WatermarkValue(config.watermark), 255)))
    ELSE IF config.watermark > 0 /\ step = 3
      THEN Issue(WriteTx(BMI270_REG_FIFO_WTM_1,
                         BitAnd(WatermarkValue(config.watermark) \div 256, 31)))
    ELSE Return("ESP_OK")

\* mutant: the 11-bit mask is left out
FifoLengthValue_unmasked(length_data) ==
    ToUint16(BitOr(length_data[2] * 256, length_data[1]))

\* (uint16_t)((length_data[1] << 8) | length_data[0]) & 0x07FF
FifoLengthValue(length_data) ==
    BitAnd(ToUint16(BitOr(length_data[2] * 256, length_data[1])), 2047)

\* mutant: a failed read of the length registers is tried again
bmi270_get_fifo_length_retry(devp, lengthp, step, last, data) ==
    IF ~devp \/ ~lengthp THEN Return("ESP_ERR_INVALID_ARG")
    ELSE IF step = 0 \/ (step = 1 /\ last # "ESP_OK")
      THEN Issue(BurstTx(BMI270_REG_FIFO_LENGTH_0, 2))
    ELSE IF last # "ESP_OK" THEN Return(last)
    ELSE ReturnValue(FifoLengthValue(data))

bmi270_get_fifo_length(devp, lengthp, step, last, data) ==
    IF ~devp \/ ~lengthp THEN Return("ESP_ERR_INVALID_ARG")
    ELSE IF step = 0 THEN Issue(BurstTx(BMI270_REG_FIFO_LENGTH_0, 2))
    ELSE IF last # "ESP_OK" THEN Return(last)
    ELSE ReturnValue(FifoLengthValue(data))

\* mutant: the length is not checked against BMI270_FIFO_SIZE
bmi270_read_fifo_data_anySize(devp, datap, length, step, last) ==
    IF ~devp \/ ~datap \/ length = 0 THEN Return("ESP_ERR_INVALID_ARG")
    ELSE IF step = 0 THEN Issue(BurstTx(BMI270_REG_FIFO_DATA, length))
    ELSE IF last # "ESP_OK" THEN Return(last)
    ELSE Return("ESP_OK")

bmi270_read_fifo_data(devp, datap, length, step, last) ==
    IF ~devp \/ ~datap \/ length = 0 THEN Return("ESP_ERR_INVALID_ARG")
    ELSE IF length > BMI270_FIFO_SIZE THEN Return("ESP_ERR_INVALID_SIZE")
    ELSE IF step = 0 THEN Issue(BurstTx(BMI270_REG_FIFO_DATA, length))
    ELSE IF last # "ESP_OK" THEN Return(last)
    ELSE Return("ESP_OK")

\* mutant: the flush also marks the initialization complete
bmi270_flush_fifo_marks(devp, step, last) ==
    IF ~devp THEN Return("ESP_ERR_INVALID_ARG")
    ELSE IF step = 0
      THEN [tx |-> WriteTx(BMI270_REG_CMD, "BMI270_CMD_FIFO_FLUSH"),
            ret |-> "pending", wrote |-> FALSE, out |-> 0, mark |-> TRUE]
    ELSE IF last # "ESP_OK" THEN Return(last)
    ELSE Return("ESP_OK")

bmi270_flush_fifo(devp, step, last) ==
    IF ~devp THEN Return("ESP_ERR_INVALID_ARG")
    ELSE IF step = 0
      THEN Issue(WriteTx(BMI270_REG_CMD, "BMI270_CMD_FIFO_FLUSH"))
    ELSE IF last # "ESP_OK" THEN Return(last)
    ELSE Return("ESP_OK")

\* the bit of INT_MAP_DATA that routes the watermark interrupt to int_pin
WatermarkMapBit(int_pin) == IF int_pin = BMI270_INT_PIN_1 THEN 2 ELSE 32

\* mutant: the register is overwritten with the watermark bit alone
bmi270_enable_fifo_watermark_interrupt_bit(devp, int_pin, step, last, data) ==
    IF ~devp THEN Return("ESP_ERR_INVALID_ARG")
    ELSE IF step = 0 THEN Issue(ReadTx(BMI270_REG_INT_MAP_DATA))
    ELSE IF last # "ESP_OK" THEN Return(last)
    ELSE IF step = 1
      THEN Issue(WriteTx(BMI270_REG_INT_MAP_DATA, WatermarkMapBit(int_pin)))
    ELSE Return("ESP_OK")

bmi270_enable_fifo_watermark_interrupt(devp, int_pin, step, last, data) ==
    IF ~devp THEN Return("ESP_ERR_INVALID_ARG")
    ELSE IF step = 0 THEN Issue(ReadTx(BMI270_REG_INT_MAP_DATA))
    ELSE IF last # "ESP_OK" THEN Return(last)
    ELSE IF step = 1
      THEN Issue(WriteTx(BMI270_REG_INT_MAP_DATA,
                         BitOr(data, WatermarkMapBit(int_pin))))
    ELSE Return("ESP_OK")

FifoFunctions ==
    {"bmi270_configure_fifo", "bmi270_get_fifo_length",
     "bmi270_read_fifo_data", "bmi270_flush_fifo",
     "bmi270_enable_fifo_watermark_interrupt"}

\* what the FIFO function of call c does next
FifoStep(c) ==
    CASE c.fn = "bmi270_configure_fifo" ->
           bmi270_configure_fifo(c.arg.devp, c.arg.cfgp, c.arg.config,
                                 c.step, c.last)
      [] c.fn = "bmi270_get_fifo_length" ->
           bmi270_get_fifo_length(c.arg.devp, c.arg.lengthp, c.step, c.last,
                                  c.data)
      [] c.fn = "bmi270_read_fifo_data" ->
           bmi270_read_fifo_data(c.arg.devp, c.arg.datap, c.arg.length,
                                 c.step, c.last)
      [] c.fn = "bmi270_flush_fifo" ->
           bmi270_flush_fifo(c.arg.devp, c.step, c.last)
      [] c.fn = "bmi270_enable_fifo_watermark_interrupt" ->
           bmi270_enable_fifo_watermark_interrupt(c.arg.devp, c.arg.int_pin,
                                                  c.step, c.last, c.data)

(***************************************************************************)
(* The rest of the driver: register access, bring-up, the setters and the  *)
(* data reads the applications call.                                       *)
(***************************************************************************)
BMI270_REG_CHIP_ID == 0
BMI270_REG_ACC_X_LSB == 12
BMI270_REG_GYR_X_LSB == 18
BMI270_REG_INTERNAL_STATUS == 33
BMI270_REG_TEMP_MSB == 34
BMI270_REG_ACC_CONF == 64
BMI270_REG_ACC_RANGE == 65
BMI270_REG_GYR_CONF == 66
BMI270_REG_GYR_RANGE == 67
BMI270_REG_INT1_IO_CTRL == 83
BMI270_REG_INT_LATCH == 85
BMI270_REG_INIT_CTRL == 89
BMI270_REG_INIT_ADDR_0 == 91
BMI270_REG_INIT_ADDR_1 == 92
BMI270_REG_INIT_DATA == 94
BMI270_REG_PWR_CONF == 124
BMI270_REG_PWR_CTRL == 125
BMI270_CHIP_ID == 36
BMI270_INTERNAL_STATUS_MSG_MASK == 15
BMI270_INTERNAL_STATUS_MSG_INIT_OK == 1
BMI270_INTERNAL_STATUS_MSG_INIT_ERR == 2
BMI270_CONFIG_FILE_SIZE == 8192
BMI270_CONFIG_BURST_SIZE == 256
BMI270_DELAY_WRITE_NORMAL_US == 2
BMI270_DELAY_ACCESS_LOWPOWER_US == 1000

\* mutant: every access is followed by the normal-mode delay
SettleDelay_alwaysNormal(d) == BMI270_DELAY_WRITE_NORMAL_US

\* the delay after a register access: normal mode timing (2 us instead of
\* 1000 us) once initialization is marked complete
SettleDelay(d) ==
    IF d.init_complete THEN BMI270_DELAY_WRITE_NORMAL_US
    ELSE BMI270_DELAY_ACCESS_LOWPOWER_US

bmi270_set_init_complete(d) == [d EXCEPT !.init_complete = TRUE]

\* number of status reads of the verification loop before it times out
\* (BMI270_TIMEOUT_INIT_MS = 150 ms of polling in the driver)
MaxPolls == 2

\* a function that issues the transactions txs in order and returns at the
\* first one that fails
TxSequence(txs, step, last) ==
    IF last # "ESP_OK" THEN Return(last)
    ELSE IF step < Len(txs) THEN Issue(txs[step + 1])
    ELSE Return("ESP_OK")

bmi270_read_register(reg_addr, step, last) ==
    TxSequence(<<ReadTx(reg_addr)>>, step, last)

\* a setter: read the register, change its field, write it back
RegisterSetter(reg, step, last) ==
    TxSequence(<<ReadTx(reg), WriteTx(reg, "modified")>>, step, last)

\* a data read: one burst of n bytes
DataRead(reg, n, step, last) == TxSequence(<<BurstTx(reg, n)>>, step, last)

\* mutant: only the first half of the configuration file is uploaded
ConfigChunks_half == BMI270_CONFIG_FILE_SIZE \div (2 * BMI270_CONFIG_BURST_SIZE)

ConfigChunks == BMI270_CONFIG_FILE_SIZE \div BMI270_CONFIG_BURST_SIZE

\* steps of bmi270_init: the upload, the verification loop, the power-up
UploadStart == 4
UploadEnd == UploadStart + 3 * ConfigChunks
PollStart == UploadEnd + 1
ReadyStep == PollStart + MaxPolls

IssueAt(tx, next) == [tx |-> tx, ret |-> "pending", wrote |-> FALSE,
                      out |-> 0, next |-> next]

\* bmi270_set_init_complete(dev), then the transaction
IssueMarkedAt(tx, next) == [tx |-> tx, ret |-> "pending", wrote |-> FALSE,
                            out |-> 0, next |-> next, mark |-> TRUE]

\* mutant: the verification loop has no timeout
AfterStatusRead_noTimeout(step, data) ==
    LET msg == BitAnd(data, BMI270_INTERNAL_STATUS_MSG_MASK)
    IN  IF msg = BMI270_INTERNAL_STATUS_MSG_INIT_OK
          THEN IssueMarkedAt(WriteTx(BMI270_REG_PWR_CTRL, "enable"),
                             ReadyStep + 1)
        ELSE IF msg = BMI270_INTERNAL_STATUS_MSG_INIT_ERR
          THEN Return("ConfigRejected")
        ELSE IssueAt(ReadTx(BMI270_REG_INTERNAL_STATUS), ReadyStep)

\* the verification loop, after a status read that returned data
AfterStatusRead(step, data) ==
    LET msg == BitAnd(data, BMI270_INTERNAL_STATUS_MSG_MASK)
    IN  IF msg = BMI270_INTERNAL_STATUS_MSG_INIT_OK
          THEN IssueMarkedAt(WriteTx(BMI270_REG_PWR_CTRL, "enable"),
                             ReadyStep + 1)
        ELSE IF msg = BMI270_INTERNAL_STATUS_MSG_INIT_ERR
          THEN Return("ConfigRejected")
        ELSE IF step >= ReadyStep THEN Return("VerificationTimeout")
        ELSE Issue(ReadTx(BMI270_REG_INTERNAL_STATUS))

bmi270_init(step, last, data) ==
    IF last # "ESP_OK" THEN Return(last)
    ELSE IF step = 0 THEN Issue(ReadTx(BMI270_REG_CHIP_ID))
    ELSE IF step = 1 /\ data # BMI270_CHIP_ID THEN Return("ChipIdMismatch")
    ELSE IF step = 1
      THEN Issue(WriteTx(BMI270_REG_CMD, "BMI270_CMD_SOFT_RESET"))
    ELSE IF step = 2 THEN Issue(WriteTx(BMI270_REG_PWR_CONF, "adv_off"))
    ELSE IF step = 3 THEN Issue(WriteTx(BMI270_REG_INIT_CTRL, "PREPARE"))
    ELSE IF step < UploadEnd
      THEN LET k == (step - UploadStart) \div 3
               i == (step - UploadStart) % 3
           IN  IF i = 0 THEN Issue(WriteTx(BMI270_REG_INIT_ADDR_0, <<"lo", k>>))
               ELSE IF i = 1
                 THEN Issue(WriteTx(BMI270_REG_INIT_ADDR_1, <<"hi", k>>))
               ELSE Issue([op |-> "write_burst", reg |-> BMI270_REG_INIT_DATA,
                           val |-> <<"chunk", k>>,
                           len |-> BMI270_CONFIG_BURST_SIZE])
    ELSE IF step = UploadEnd
      THEN Issue(WriteTx(BMI270_REG_INIT_CTRL, "COMPLETE"))
    ELSE IF step = PollStart THEN Issue(ReadTx(BMI270_REG_INTERNAL_STATUS))
    ELSE IF step <= ReadyStep THEN AfterStatusRead(step, data)
    ELSE IF step = ReadyStep + 1
      THEN Issue(WriteTx(BMI270_REG_PWR_CONF, "normal"))
    ELSE Return("ESP_OK")

(***************************************************************************)
(* The bus and the chip.  A transaction is begun by the driver call in     *)
(* progress, is transferred (and may fail), and is followed by the settle  *)
(* delay; only then does the call go on.                                   *)
(***************************************************************************)
\* the raw FIFO_LENGTH_0/1 pairs the chip answers with
RawLengths == {<<0, 0>>, <<13, 0>>, <<20, 0>>, <<0, 10>>, <<255, 255>>}

\* the pairs it answers app_main with: empty, complete frames, the watermark,
\* and a pair with a bit set above the 11 bits of the length
AppRawLengths == {<<0, 0>>, <<13, 0>>, <<20, 0>>, <<0, 2>>, <<13, 8>>}

FrameAB == <<BMI270_FIFO_HEAD_ACC_GYR>> \o PayA \o PayB
FrameA == <<BMI270_FIFO_HEAD_ACC>> \o PayA

\* n bytes of FIFO data: combined frames, cut where the read ends
Stream(n) == [i \in 1..n |-> FrameAB[((i - 1) % Len(FrameAB)) + 1]]

\* the same behind one accelerometer frame
AltStream(n) ==
    [i \in 1..n |-> IF i <= Len(FrameA) THEN FrameA[i]
                    ELSE FrameAB[((i - 1 - Len(FrameA)) % Len(FrameAB)) + 1]]

FifoBytes(n) == {Stream(n), AltStream(n)}

\* what the chip answers to a read transaction
ChipRead(tx) ==
    IF tx.op = "read"
      THEN IF tx.reg \in ChipRegs THEN {regs[tx.reg]}
           ELSE IF tx.reg = BMI270_REG_CHIP_ID THEN {BMI270_CHIP_ID, 0}
           ELSE IF tx.reg = BMI270_REG_INTERNAL_STATUS
             THEN {0, BMI270_INTERNAL_STATUS_MSG_INIT_OK,
                   BMI270_INTERNAL_STATUS_MSG_INIT_ERR}
           ELSE {0}
    ELSE IF tx.op = "read_burst"
      THEN IF tx.reg = BMI270_REG_FIFO_LENGTH_0
             THEN IF hist.app = "none" THEN RawLengths ELSE AppRawLengths
           ELSE IF tx.reg = BMI270_REG_FIFO_DATA THEN FifoBytes(tx.len)
           ELSE {0}
    ELSE {0}

\* the registers after a write transaction
ChipWrite(tx) ==
    IF tx.op = "write" /\ tx.reg \in ChipRegs
      THEN [regs EXCEPT ![tx.reg] = tx.val]
    ELSE IF tx.op = "write" /\ tx.reg = BMI270_REG_CMD
            /\ tx.val = "BMI270_CMD_SOFT_RESET"
      THEN ResetRegs
    ELSE regs

\* what the call in progress does next
LibStep(c) ==
    IF c.fn \in FifoFunctions THEN FifoStep(c)
    ELSE IF c.fn = "bmi270_init" THEN bmi270_init(c.step, c.last, c.data)
    ELSE IF c.fn = "bmi270_read_register"
      THEN bmi270_read_register(c.arg.reg, c.step, c.last)
    ELSE IF c.fn \in {"bmi270_read_temperature", "bmi270_read_accel_raw",
                      "bmi270_read_gyro_raw", "bmi270_read_accel",
                      "bmi270_read_gyro"}
      THEN DataRead(c.arg.reg, c.arg.len, c.step, c.last)
    ELSE RegisterSetter(c.arg.reg, c.step, c.last)

StartCall(fn, arg) == [NoCall EXCEPT !.fn = fn, !.arg = arg, !.ret = "running"]

Running == call.ret = "running"

decvars == <<buffer_ptr, remaining, frame, ret, entry, reads, delivered,
             counts>>

\* bmi270_init reads INTERNAL_STATUS
StatusPoll(c, tx) ==
    /\ c.fn = "bmi270_init"
    /\ tx.op = "read"
    /\ tx.reg = BMI270_REG_INTERNAL_STATUS

\* bmi270_init reads the message INIT_OK from INTERNAL_STATUS
StatusInitOk(c, tx, d) ==
    /\ c.fn = "bmi270_init"
    /\ tx.op = "read"
    /\ tx.reg = BMI270_REG_INTERNAL_STATUS
    /\ BitAnd(d, BMI270_INTERNAL_STATUS_MSG_MASK)
         = BMI270_INTERNAL_STATUS_MSG_INIT_OK

\* the call in progress begins its next transaction
BusBegin ==
    /\ Running
    /\ bus.phase = "idle"
    /\ \E r \in {LibStep(call)} :
           /\ r.ret = "pending"
           /\ dev' = IF "mark" \in DOMAIN r
                     THEN bmi270_set_init_complete(dev) ELSE dev
           /\ hist' = IF "mark" \in DOMAIN r
                      THEN [hist EXCEPT !.marks = @ + 1] ELSE hist
           /\ bus' = [bus EXCEPT !.phase = "xfer", !.tx = r.tx,
                                 !.active = @ + 1,
                                 !.delay = SettleDelay(dev')]
           /\ call' = [call EXCEPT
                 !.step = IF "next" \in DOMAIN r THEN r.next ELSE @ + 1,
                 !.polls = IF StatusPoll(call, r.tx) THEN @ + 1 ELSE @,
                 !.log = Append(@, r.tx)]
    /\ UNCHANGED <<fifo_buffer, pc, decvars, regs, gpio_evt_queue>>

\* the transfer: it fails, or the chip takes the write or answers the read
BusXfer ==
    /\ bus.phase = "xfer"
    /\ \/ /\ bus' = [bus EXCEPT !.phase = "idle", !.active = @ - 1,
                                 !.delay = 0]
          /\ call' = [call EXCEPT !.last = "ESP_FAIL"]
          /\ UNCHANGED <<regs, fifo_buffer, hist>>
       \/ \E d \in ChipRead(bus.tx) :
            /\ bus' = [bus EXCEPT !.phase = "settle"]
            /\ regs' = ChipWrite(bus.tx)
            /\ hist' = [hist EXCEPT
                  !.init_ok = @ \/ StatusInitOk(call, bus.tx, d)]
            /\ IF bus.tx.op = "read_burst"
                  /\ bus.tx.reg = BMI270_REG_FIFO_DATA
                 THEN fifo_buffer' = d /\ call' = call
                 ELSE call' = [call EXCEPT !.data = d]
                      /\ UNCHANGED fifo_buffer
    /\ UNCHANGED <<pc, decvars, dev, gpio_evt_queue>>

\* the settle delay after the transfer has elapsed
BusSettle ==
    /\ bus.phase = "settle"
    /\ bus' = [bus EXCEPT !.phase = "idle", !.active = @ - 1, !.delay = 0]
    /\ UNCHANGED <<fifo_buffer, pc, decvars, dev, regs, call,
                   gpio_evt_queue, hist>>

\* the call in progress returns
LibReturn ==
    /\ Running
    /\ bus.phase = "idle"
    /\ \E r \in {LibStep(call)} :
           /\ r.ret # "pending"
           /\ call' = [call EXCEPT !.ret = r.ret,
                                   !.out = IF r.wrote THEN r.out ELSE @]
    /\ UNCHANGED <<fifo_buffer, pc, decvars, dev, regs, bus,
                   gpio_evt_queue, hist>>

BusNext == BusBegin \/ BusXfer \/ BusSettle \/ LibReturn

(***************************************************************************)
(* A client of the FIFO functions: up to MaxCalls calls, with any          *)
(* arguments, on a handle whose bus is set up.                             *)
(***************************************************************************)
MaxCalls == 2

Watermarks == {0, 1, 512, 2047, 2048, 3000, 65535}

Enables == {<<TRUE, TRUE, TRUE, TRUE>>, <<FALSE, FALSE, FALSE, FALSE>>,
            <<TRUE, FALSE, TRUE, FALSE>>}

FifoConfigs ==
    {[acc_enable |-> e[1], gyr_enable |-> e[2], header_enable |-> e[3],
      stop_on_full |-> e[4], watermark |-> w] : e \in Enables, w \in Watermarks}

\* pointer arguments: TRUE for a valid pointer, FALSE for NULL
PointerPairs == {<<TRUE, TRUE>>, <<FALSE, TRUE>>, <<TRUE, FALSE>>}

ReadLengths == {0, 13, BMI270_FIFO_SIZE, BMI270_FIFO_SIZE + 1}

ClientCalls ==
    {StartCall("bmi270_configure_fifo",
               [devp |-> TRUE, cfgp |-> TRUE, config |-> c]) : c \in FifoConfigs}
    \cup {StartCall("bmi270_configure_fifo",
                    [devp |-> q[1], cfgp |-> q[2],
                     config |-> CHOOSE c \in FifoConfigs : c.watermark = 512])
          : q \in PointerPairs}
    \cup {StartCall("bmi270_get_fifo_length", [devp |-> q[1], lengthp |-> q[2]])
          : q \in PointerPairs}
    \cup {StartCall("bmi270_read_fifo_data",
                    [devp |-> TRUE, datap |-> TRUE, length |-> n])
          : n \in ReadLengths}
    \cup {StartCall("bmi270_read_fifo_data",
                    [devp |-> q[1], datap |-> q[2], length |-> 13])
          : q \in PointerPairs}
    \cup {StartCall("bmi270_flush_fifo", [devp |-> b]) : b \in BOOLEAN}
    \cup {StartCall("bmi270_enable_fifo_watermark_interrupt",
                    [devp |-> b, int_pin |-> n])
          : b \in BOOLEAN, n \in {BMI270_INT_PIN_1, BMI270_INT_PIN_2}}

\* INT_MAP_DATA as another part of the program may have left it
MapDataBefore == {0, 68}

FifoInit ==
    /\ fifo_buffer = <<>>
    /\ buffer_ptr = 0
    /\ remaining = 0
    /\ frame = [type |-> 0, acc |-> RawZero, gyr |-> RawZero]
    /\ ret = "none"
    /\ pc = "client"
    /\ entry = NoEntry(frame)
    /\ reads = {}
    /\ delivered = <<>>
    /\ counts = ZeroCounts
    /\ dev = [initialized |-> TRUE, init_complete |-> FALSE]
    /\ regs \in {[ResetRegs EXCEPT ![BMI270_REG_INT_MAP_DATA] = m]
                 : m \in MapDataBefore}
    /\ call = NoCall
    /\ bus = BusIdle
    /\ gpio_evt_queue = 0
    /\ hist = NoHist

ClientCall ==
    /\ pc = "client"
    /\ call.ret = "none"
    /\ hist.ncalls < MaxCalls
    /\ call' \in ClientCalls
    /\ hist' = [hist EXCEPT !.ncalls = @ + 1, !.regs0 = regs]
    /\ UNCHANGED <<fifo_buffer, pc, decvars, dev, regs, bus, gpio_evt_queue>>

ClientReturn ==
    /\ pc = "client"
    /\ call.ret \notin {"none", "running"}
    /\ call' = NoCall
    /\ hist' = [hist EXCEPT
          !.regs0 = ResetRegs,
          !.last_cfg = IF call.fn = "bmi270_configure_fifo"
                          /\ call.ret = "ESP_OK"
                       THEN <<call.arg.config>> ELSE <<>>]
    /\ UNCHANGED <<fifo_buffer, pc, decvars, dev, regs, bus, gpio_evt_queue>>

\* between two FIFO calls the caller marks the initialization complete
ClientMark ==
    /\ pc = "client"
    /\ call.ret = "none"
    /\ ~dev.init_complete
    /\ dev' = bmi270_set_init_complete(dev)
    /\ hist' = [hist EXCEPT !.marks = @ + 1]
    /\ UNCHANGED <<fifo_buffer, pc, decvars, regs, call, bus, gpio_evt_queue>>

FifoNext == ClientCall \/ ClientReturn \/ ClientMark \/ BusNext

FifoSpec == FifoInit /\ [][FifoNext]_vars

Returned(fn) == call.fn = fn /\ call.ret \notin {"none", "running"}

C13_LengthMasked ==
    (Returned("bmi270_get_fifo_length") /\ call.ret = "ESP_OK") =>
        /\ call.out = (call.data[2] * 256 + call.data[1]) % 2048
        /\ call.out \in 0..2047

C13_Witness ==
    /\ Returned("bmi270_get_fifo_length") /\ call.ret = "ESP_OK"
    /\ call.data = <<255, 255>>
    /\ call.out = 2047

\* C19: a FIFO configuration, length query, bulk read, flush or
\* interrupt-mapping call performs no bus transaction on a handle whose
\* bring-up has not completed.
C19_FifoGatedOnBringUp ==
    (call.fn \in FifoFunctions /\ bus.phase # "idle") => dev.init_complete

(***************************************************************************)
(* app_main of examples/stage5_fifo and of examples/stage3_polling, with   *)
(* the GPIO interrupt of stage5.                                           *)
(***************************************************************************)
FIFO_WATERMARK == 512
QueueLength == 10

AppFifoConfig == [acc_enable |-> TRUE, gyr_enable |-> TRUE,
                  header_enable |-> TRUE, stop_on_full |-> TRUE,
                  watermark |-> FIFO_WATERMARK]

\* the registers read back after the flush, in order
ReadBack == <<BMI270_REG_FIFO_CONFIG_0, BMI270_REG_FIFO_CONFIG_1,
              BMI270_REG_INT_MAP_DATA, BMI270_REG_INT1_IO_CTRL,
              BMI270_REG_FIFO_WTM_0, BMI270_REG_FIFO_WTM_1>>

ReadBackAt == <<"rd48", "rd49", "rd58", "rd53", "rd46", "rd47">>

ReadBackPositions == {ReadBackAt[i] : i \in 1..Len(ReadBackAt)}

ReadBackIndex(p) == CHOOSE i \in 1..Len(ReadBackAt) : ReadBackAt[i] = p

\* the positions of app_main at which it calls the driver
CallPositions ==
    {"dummy1", "dummy2", "init", "acc_range", "gyr_range", "acc_conf",
     "gyr_conf", "int_pin", "fifo_cfg", "latch", "wm_int", "flush",
     "len1", "len2", "q_len", "q_read", "done", "t_len",
     "acc_raw", "gyr_raw", "acc", "gyro", "temp3"}
    \cup ReadBackPositions

Setter(fn, reg) == StartCall(fn, [reg |-> reg])

\* mutant: the bulk read always asks for one watermark of bytes
BulkReadLength_watermark(fifo_length) == FIFO_WATERMARK

\* the length argument of bmi270_read_fifo_data(&g_dev, fifo_buffer, fifo_length)
BulkReadLength(fifo_length) == fifo_length

\* the call app_main makes at position p
AppCallAt(p, fifo_length) ==
    CASE p \in {"dummy1", "dummy2"} ->
           StartCall("bmi270_read_register", [reg |-> BMI270_REG_CHIP_ID])
      [] p = "init" -> StartCall("bmi270_init", <<>>)
      [] p = "acc_range" -> Setter("bmi270_set_accel_range", BMI270_REG_ACC_RANGE)
      [] p = "gyr_range" -> Setter("bmi270_set_gyro_range", BMI270_REG_GYR_RANGE)
      [] p = "acc_conf" -> Setter("bmi270_set_accel_config", BMI270_REG_ACC_CONF)
      [] p = "gyr_conf" -> Setter("bmi270_set_gyro_config", BMI270_REG_GYR_CONF)
      [] p = "int_pin" ->
           Setter("bmi270_configure_int_pin", BMI270_REG_INT1_IO_CTRL)
      [] p = "fifo_cfg" ->
           StartCall("bmi270_configure_fifo",
                     [devp |-> TRUE, cfgp |-> TRUE, config |-> AppFifoConfig])
      [] p = "latch" -> Setter("bmi270_set_int_latch_mode", BMI270_REG_INT_LATCH)
      [] p = "wm_int" ->
           StartCall("bmi270_enable_fifo_watermark_interrupt",
                     [devp |-> TRUE, int_pin |-> BMI270_INT_PIN_1])
      [] p = "flush" -> StartCall("bmi270_flush_fifo", [devp |-> TRUE])
      [] p \in ReadBackPositions ->
           StartCall("bmi270_read_register",
                     [reg |-> ReadBack[ReadBackIndex(p)]])
      [] p \in {"len1", "len2", "q_len", "t_len"} ->
           StartCall("bmi270_get_fifo_length",
                     [devp |-> TRUE, lengthp |-> TRUE])
      [] p = "q_read" ->
           StartCall("bmi270_read_fifo_data",
                     [devp |-> TRUE, datap |-> TRUE,
                      length |-> BulkReadLength(fifo_length)])
      [] p \in {"done", "temp3"} ->
           StartCall("bmi270_read_temperature",
                     [reg |-> BMI270_REG_TEMP_MSB, len |-> 2])
      [] p = "acc_raw" ->
           StartCall("bmi270_read_accel_raw",
                     [reg |-> BMI270_REG_ACC_X_LSB, len |-> 6])
      [] p = "gyr_raw" ->
           StartCall("bmi270_read_gyro_raw",
                     [reg |-> BMI270_REG_GYR_X_LSB, len |-> 6])
      [] p = "acc" ->
           StartCall("bmi270_read_accel",
                     [reg |-> BMI270_REG_ACC_X_LSB, len |-> 6])
      [] p = "gyro" ->
           StartCall("bmi270_read_gyro",
                     [reg |-> BMI270_REG_GYR_X_LSB, len |-> 6])

\* mutant: a failed bmi270_init is ignored
AfterInit_ignored(r) == "acc_range"

\* if (ret != ESP_OK) return; after bmi270_init
AfterInit(r) == IF r = "ESP_OK" THEN "acc_range" ELSE "exit"

\* mutant: the FIFO is flushed after every batch
AfterBatch_flush == "flush"

\* end of the token branch: back to xQueueReceive, without a flush
AfterBatch == "wait"

\* mutant: after a timeout the task waits again at once
AfterWait_noPoll(got) == IF got THEN "q_len" ELSE "wait"

\* the branch taken on the result of xQueueReceive
AfterWait(got) == IF got THEN "q_len" ELSE "t_len"

OrExit(r, next) == IF r = "ESP_OK" THEN next ELSE "exit"

\* mutant: an empty FIFO is bulk-read like any other
AfterLength_noEmptyCheck(r, out) == IF r # "ESP_OK" THEN "wait" ELSE "q_read"

\* if (ret != ESP_OK) continue; if (fifo_length == 0) continue;
AfterLength(r, out) == IF r # "ESP_OK" \/ out = 0 THEN "wait" ELSE "q_read"

\* where app_main goes when the call made at p returns r (and out)
AppAfter(which, p, r, out) ==
    CASE p = "dummy1" -> "dummy2"
      [] p = "dummy2" -> "init"
      [] p = "init" -> AfterInit(r)
      [] p = "acc_range" -> "gyr_range"
      [] p = "gyr_range" -> "acc_conf"
      [] p = "acc_conf" -> "gyr_conf"
      [] p = "gyr_conf" -> IF which = "stage5" THEN "int_pin" ELSE "acc_raw"
      [] p = "int_pin" -> OrExit(r, "gpio_setup")
      [] p = "fifo_cfg" -> OrExit(r, "latch")
      [] p = "latch" -> OrExit(r, "wm_int")
      [] p = "wm_int" -> OrExit(r, "flush")
      [] p = "flush" -> OrExit(r, ReadBackAt[1])
      [] p \in ReadBackPositions ->
           IF ReadBackIndex(p) < Len(ReadBackAt)
           THEN ReadBackAt[ReadBackIndex(p) + 1] ELSE "len1"
      [] p = "len1" -> "len2"
      [] p = "len2" -> "wait"
      [] p = "q_len" -> AfterLength(r, out)
      [] p = "q_read" -> IF r # "ESP_OK" THEN "wait" ELSE "loop"
      [] p = "done" -> AfterBatch
      [] p = "t_len" -> "wait"
      [] p = "acc_raw" -> IF r = "ESP_OK" THEN "gyr_raw" ELSE "acc_raw"
      [] p = "gyr_raw" -> IF r = "ESP_OK" THEN "acc" ELSE "acc_raw"
      [] p = "acc" -> IF r = "ESP_OK" THEN "gyro" ELSE "acc_raw"
      [] p = "gyro" -> IF r = "ESP_OK" THEN "temp3" ELSE "acc_raw"
      [] p = "temp3" -> "acc_raw"

\* mutant: the handler reads the FIFO over the bus instead of waking the task
gpio_isr_handler_reads(q) == [queue |-> q, bus_ops |-> 1]

\* mutant: the handler also queries the FIFO length over the bus
gpio_isr_handler_polls(q) ==
    [queue |-> IF q < QueueLength THEN q + 1 ELSE q, bus_ops |-> 1]

\* mutant: the token is enqueued even when the queue is full
gpio_isr_handler_unbounded(q) == [queue |-> q + 1, bus_ops |-> 0]

\* gpio_isr_handler: xQueueSendFromISR of one token, dropped when the queue
\* is full; bus_ops is the number of bus transactions it begins
gpio_isr_handler(q) ==
    [queue |-> IF q < QueueLength THEN q + 1 ELSE q, bus_ops |-> 0]

Apps == {"stage5", "stage3"}

AppInit ==
    /\ fifo_buffer = <<>>
    /\ buffer_ptr = 0
    /\ remaining = 0
    /\ frame = [type |-> 0, acc |-> RawZero, gyr |-> RawZero]
    /\ ret = "none"
    /\ pc = "spi_init"
    /\ entry = NoEntry(frame)
    /\ reads = {}
    /\ delivered = <<>>
    /\ counts = ZeroCounts
    /\ dev = NewDev
    /\ regs = ResetRegs
    /\ call = NoCall
    /\ bus = BusIdle
    /\ gpio_evt_queue = 0
    /\ hist \in {[NoHist EXCEPT !.app = a] : a \in Apps}

\* Step 1: bmi270_spi_init, which sets up the bus or fails
AppSpiInit ==
    /\ pc = "spi_init"
    /\ \E ok \in BOOLEAN :
         /\ dev' = [dev EXCEPT !.initialized = ok]
         /\ pc' = IF ok THEN "dummy1" ELSE "exit"
    /\ UNCHANGED <<fifo_buffer, decvars, regs, call, bus, gpio_evt_queue, hist>>

\* app_main calls the driver
AppCall ==
    /\ pc \in CallPositions
    /\ call.ret = "none"
    /\ call' = AppCallAt(pc, hist.fifo_length)
    /\ hist' = [hist EXCEPT
          !.queries = IF call'.fn = "bmi270_get_fifo_length" THEN @ + 1 ELSE @]
    /\ UNCHANGED <<fifo_buffer, pc, decvars, dev, regs, bus, gpio_evt_queue>>

\* the call returns and app_main branches on its result
AppReturn ==
    /\ pc \in CallPositions
    /\ call.ret \notin {"none", "running"}
    /\ LET ok == call.ret = "ESP_OK"
           next == AppAfter(hist.app, pc, call.ret, call.out)
       IN  /\ pc' = next
           /\ hist' = [hist EXCEPT
                 !.init_ret = IF pc = "init" THEN call.ret ELSE @,
                 !.fifo_length = IF pc \in {"q_len", "t_len"} /\ ok
                                 THEN call.out ELSE @,
                 !.polled = @ \/ (pc = "t_len" /\ call.step > 0),
                 !.owed = (@ \/ (pc = "t_len" /\ ok
                                 /\ call.out >= FIFO_WATERMARK))
                          /\ ~(pc = "q_read" /\ ok),
                 !.signaled = @ /\ ~(pc = "q_read" /\ ok),
                 !.batch_len = IF pc = "q_len" /\ ok THEN call.out ELSE @,
                 !.batch_read = @ \/ (pc = "q_read" /\ ok)]
           /\ IF next = "loop"
                THEN /\ buffer_ptr' = 0
                     /\ remaining' = hist.fifo_length
                     /\ counts' = ZeroCounts
                     /\ delivered' = <<>>
                ELSE UNCHANGED <<buffer_ptr, remaining, counts, delivered>>
    /\ call' = NoCall
    /\ UNCHANGED <<fifo_buffer, frame, ret, entry, reads, dev, regs, bus,
                   gpio_evt_queue>>

\* Step 6: setup_gpio_interrupt creates the queue and attaches the handler
GpioSetup ==
    /\ pc = "gpio_setup"
    /\ \E ok \in BOOLEAN :
         /\ hist' = [hist EXCEPT !.isr_attached = ok]
         /\ pc' = IF ok THEN "fifo_cfg" ELSE "exit"
    /\ gpio_evt_queue' = 0
    /\ UNCHANGED <<fifo_buffer, decvars, dev, regs, call, bus>>

\* xQueueReceive(gpio_evt_queue, &gpio_num, 2000 ms): a token, or a timeout
\* when none arrives
Wait ==
    /\ pc = "wait"
    /\ LET got == gpio_evt_queue > 0
       IN  /\ pc' = AfterWait(got)
           /\ gpio_evt_queue' = IF got THEN gpio_evt_queue - 1 ELSE 0
           /\ hist' = [hist EXCEPT !.wake = IF got THEN "token" ELSE "timeout",
                                   !.polled = FALSE, !.waited = TRUE,
                                   !.batch_len = -1, !.batch_read = FALSE,
                                   !.queries = 0, !.dropped = FALSE]
    /\ UNCHANGED <<fifo_buffer, decvars, dev, regs, call, bus>>

\* the chip raises the watermark interrupt on INT1: the edge runs the handler
WatermarkMapped == BitAnd(regs[BMI270_REG_INT_MAP_DATA],
                          WatermarkMapBit(BMI270_INT_PIN_1)) # 0

GpioEdge ==
    /\ hist.isr_attached
    /\ WatermarkMapped
    /\ LET r == gpio_isr_handler(gpio_evt_queue)
       IN  /\ gpio_evt_queue' = r.queue
           /\ bus' = [bus EXCEPT
                 !.isr = IF r.bus_ops > 0 THEN 1 ELSE @,
                 !.overlap = @ \/ (r.bus_ops > 0 /\ bus.phase # "idle")]
    /\ hist' = [hist EXCEPT !.signaled = TRUE, !.edge = bus.phase,
                            !.dropped = @ \/ gpio_evt_queue' = gpio_evt_queue]
    /\ UNCHANGED <<fifo_buffer, pc, decvars, dev, regs, call>>

AppNext ==
    \/ AppSpiInit \/ AppCall \/ AppReturn \/ GpioSetup \/ Wait \/ GpioEdge
    \/ ParseFrames \/ LoopEnd \/ BusNext

AppSpec == AppInit /\ [][AppNext]_vars

OnBus == bus.phase # "idle"

FlushOnBus ==
    /\ OnBus
    /\ bus.tx.reg = BMI270_REG_CMD
    /\ bus.tx.val = "BMI270_CMD_FIFO_FLUSH"

\* C14: the GPIO interrupt handler begins no bus transaction and does
\* nothing but enqueue one wake token; every transaction on the bus belongs
\* to a driver call made by the task, and the buffer and the decode cursor
\* are untouched by the handler.
C14_IsrOnlyEnqueues ==
    /\ [](bus.isr = 0 /\ (OnBus => Running))
    /\ [][gpio_evt_queue' > gpio_evt_queue =>
            /\ gpio_evt_queue' = gpio_evt_queue + 1
            /\ UNCHANGED <<bus, call, regs, dev, fifo_buffer, pc, decvars>>]_vars

C14_Witness ==
    /\ hist.edge = "xfer"
    /\ gpio_evt_queue > 0
    /\ pc = "q_read"
    /\ call.fn = "bmi270_read_fifo_data"
    /\ bus.phase = "settle"
    /\ bus.isr = 0

\* C15: at most one bus transaction is in progress at any time, and none
\* begins before the one before it, settle delay included, has finished,
\* whenever the interrupt edges arrive.
C15_BusSerialized ==
    /\ [](/\ bus.active <= 1
          /\ ~bus.overlap
          /\ (bus.active = 1) = OnBus)
    /\ [][(bus.phase # "xfer" /\ bus'.phase = "xfer") => bus.phase = "idle"]_vars

C15_Witness ==
    /\ hist.edge = "settle"
    /\ bus.phase = "xfer"
    /\ bus.active = 1
    /\ pc = "done"
    /\ gpio_evt_queue = 2

\* C16: when no interrupt was ever delivered and, after a timeout, the
\* length poll reports at least the watermark, the task bulk-reads the FIFO
\* before it waits again.
C16_TimeoutFallbackReads ==
    (pc = "wait" /\ hist.edge = "none") => ~hist.owed

\* C17: after a wait that timed out, the task has issued a FIFO length
\* query by the time it waits again.
C17_PollAfterTimeout ==
    (pc = "wait" /\ hist.wake = "timeout") => hist.polled

C17_Witness ==
    /\ pc = "wait"
    /\ hist.wake = "timeout"
    /\ hist.polled
    /\ hist.fifo_length = FIFO_WATERMARK

\* C18 (as stated): no flush is on the bus while a watermark event that
\* was signaled (edge raised or token enqueued) has its data still unread.
C18_NoFlushAfterSignal == FlushOnBus => ~hist.signaled

\* C18 (amended): the flush is issued only by Step 9 of the setup, before
\* the task has waited for the first time; the consumer loop never flushes.
C18_FlushOnlyInSetup == FlushOnBus => (pc = "flush" /\ ~hist.waited)

C18_Witness == FlushOnBus /\ hist.signaled /\ gpio_evt_queue > 0

\* C20 (as stated): before bmi270_init has returned success nothing but
\* bmi270_init touches the device.
C20_InitBeforeAnyAccess ==
    (OnBus /\ call.fn # "bmi270_init") => hist.init_ret = "ESP_OK"

\* C20 (amended): no sensor-configuration, interrupt-configuration, FIFO or
\* data-read call has a transaction on the bus before bmi270_init has
\* returned success, and when it returns an error app_main ends with no
\* further call; only the two CHIP_ID reads of Step 2 come before it.
C20_InitBeforeConfigAndData ==
    /\ (OnBus /\ call.fn \notin {"bmi270_init", "bmi270_read_register"})
          => hist.init_ret = "ESP_OK"
    /\ (OnBus /\ call.fn = "bmi270_read_register"
        /\ hist.init_ret # "ESP_OK")
          => (pc \in {"dummy1", "dummy2"} /\ hist.init_ret = "none")
    /\ hist.init_ret \notin {"none", "ESP_OK"}
          => (pc = "exit" /\ ~OnBus /\ call = NoCall)

C20_Witness ==
    /\ hist.app = "stage3"
    /\ hist.init_ret = "ESP_OK"
    /\ bus.phase = "xfer"
    /\ call.fn = "bmi270_read_accel_raw"

\* the bulk read of the FIFO is on the bus
FifoDataOnBus ==
    /\ bus.phase # "idle"
    /\ bus.tx.op = "read_burst"
    /\ bus.tx.reg = BMI270_REG_FIFO_DATA

\* C21: in a consumer batch the bulk read follows a successful length query
\* of the same batch and asks for exactly the length it reported, and the
\* decode loop runs only after both succeeded, over a buffer and a cursor of
\* exactly that many bytes.
C21_BatchOrder ==
    /\ FifoDataOnBus =>
         /\ pc = "q_read"
         /\ hist.batch_len > 0
         /\ bus.tx.len = hist.batch_len
         /\ ~hist.batch_read
    /\ pc = "loop" =>
         /\ hist.batch_len > 0
         /\ hist.batch_read
         /\ Len(fifo_buffer) = hist.batch_len
         /\ buffer_ptr + remaining = hist.batch_len

C21_Witness ==
    /\ pc = "loop"
    /\ hist.wake = "token"
    /\ hist.batch_len = 20
    /\ buffer_ptr = 13
    /\ remaining = 7
    /\ Len(delivered) = 1

\* a register write is on the bus
WriteOnBus == bus.phase # "idle" /\ bus.tx.op \in {"write", "write_burst"}

\* C22: no register write is followed by the normal-mode settle delay before
\* bmi270_set_init_complete has been called; the call is made exactly once
\* in a successful bring-up, and never before the verification step has
\* read INIT_OK.
C22_NormalTimingAfterMark ==
    /\ (WriteOnBus /\ bus.delay = BMI270_DELAY_WRITE_NORMAL_US)
         => hist.marks > 0
    /\ hist.init_ret = "ESP_OK" => hist.marks = 1
    /\ hist.marks > 0 => hist.init_ok
    /\ hist.marks <= 1

C22_Witness ==
    /\ hist.init_ret = "ESP_OK"
    /\ hist.marks = 1
    /\ WriteOnBus
    /\ bus.delay = BMI270_DELAY_WRITE_NORMAL_US
    /\ call.fn = "bmi270_set_accel_range"

\* C23: init_complete, once set, is never cleared, and no step of a FIFO
\* function (configure, length, read, flush, enable watermark interrupt)
\* changes either flag of the handle.
C23_FlagsStable ==
    [][/\ dev.init_complete => dev'.init_complete
       /\ call.fn \in FifoFunctions => dev' = dev]_vars

C23_Witness ==
    /\ hist.marks = 1
    /\ dev.init_complete
    /\ dev.initialized
    /\ hist.ncalls = MaxCalls
    /\ Returned("bmi270_flush_fifo")
    /\ call.ret = "ESP_OK"

\* the message field of the status byte the call read last
StatusMsg == BitAnd(call.data, BMI270_INTERNAL_STATUS_MSG_MASK)

InitReturned == call.fn = "bmi270_init" /\ call.ret \notin {"none", "running"}

\* C24: the verification step polls the status at most MaxPolls times; the
\* bring-up goes on to Ready only after reading INIT_OK; INIT_ERR ends it
\* with ConfigRejected and an exhausted loop with VerificationTimeout; and
\* after a failed bring-up nothing further happens (app_main returns).
C24_VerificationEnds ==
    /\ call.polls <= MaxPolls
    /\ (call.fn = "bmi270_init" /\ call.step > ReadyStep) => hist.init_ok
    /\ (InitReturned /\ call.ret = "ESP_OK") => hist.init_ok
    /\ (InitReturned /\ call.ret = "ConfigRejected") =>
         /\ StatusMsg = BMI270_INTERNAL_STATUS_MSG_INIT_ERR
         /\ ~hist.init_ok
    /\ (InitReturned /\ call.ret = "VerificationTimeout") =>
         /\ call.polls = MaxPolls
         /\ StatusMsg \notin {BMI270_INTERNAL_STATUS_MSG_INIT_OK,
                              BMI270_INTERNAL_STATUS_MSG_INIT_ERR}
         /\ ~hist.init_ok
    /\ hist.init_ret \notin {"none", "ESP_OK"} =>
         /\ pc = "exit"
         /\ call = NoCall
         /\ bus.phase = "idle"
         /\ hist.marks = 0 \/ hist.init_ret = "ESP_FAIL"

C24_Witness ==
    /\ InitReturned
    /\ call.ret = "VerificationTimeout"
    /\ call.polls = MaxPolls
    /\ ~dev.init_complete

\* the positions in the log of the call of its burst writes to INIT_DATA
UploadBursts ==
    {i \in 1..Len(call.log) : /\ call.log[i].op = "write_burst"
                              /\ call.log[i].reg = BMI270_REG_INIT_DATA}

\* the k-th chunk (from 0) is written at position i, right after its offset
\* was written to INIT_ADDR_0 and INIT_ADDR_1
ChunkWrittenAt(k, i) ==
    /\ i > 2
    /\ call.log[i].val = <<"chunk", k>>
    /\ call.log[i].len = BMI270_CONFIG_BURST_SIZE
    /\ call.log[i - 2].op = "write"
    /\ call.log[i - 2].reg = BMI270_REG_INIT_ADDR_0
    /\ call.log[i - 2].val = <<"lo", k>>
    /\ call.log[i - 1].op = "write"
    /\ call.log[i - 1].reg = BMI270_REG_INIT_ADDR_1
    /\ call.log[i - 1].val = <<"hi", k>>

\* the upload is over: INIT_CTRL = COMPLETE has been begun
UploadOver ==
    \E i \in 1..Len(call.log) : /\ call.log[i].reg = BMI270_REG_INIT_CTRL
                                /\ call.log[i].val = "COMPLETE"

C26_ErrorsPropagate ==
    [][(call.fn \in FifoFunctions /\ Running /\ call.last # "ESP_OK") =>
          /\ bus' = bus
          /\ call'.log = call.log
          /\ call'.ret = call.last]_vars

C26_Witness ==
    /\ Returned("bmi270_configure_fifo")
    /\ call.ret = "ESP_FAIL"
    /\ call.arg.config.watermark = 512
    /\ Len(call.log) = 2
    /\ call.log[2].reg = BMI270_REG_FIFO_CONFIG_1
    /\ regs[BMI270_REG_FIFO_WTM_0] = 0

\* the call has a null pointer argument
NullArgument(c) ==
    \E f \in {"devp", "cfgp", "lengthp", "datap"} :
        f \in DOMAIN c.arg /\ ~c.arg[f]

\* the bulk read is asked for no byte, or for more than the FIFO holds
BadLength(c) ==
    /\ c.fn = "bmi270_read_fifo_data"
    /\ c.arg.length = 0 \/ c.arg.length > 2048

\* the error the claim gives for the arguments of c
ArgumentError(c) ==
    IF NullArgument(c) \/ c.arg.length = 0
    THEN "ESP_ERR_INVALID_ARG" ELSE "ESP_ERR_INVALID_SIZE"

\* C27: a FIFO function called with a null device, configuration or output
\* pointer, or a bulk read of length 0 or of more than 2048 bytes, does
\* nothing but return ESP_ERR_INVALID_ARG (ESP_ERR_INVALID_SIZE for the
\* length above 2048): no bus transaction, no register changed, no output
\* and no buffer written.
C27_BadArgumentsNoBusAccess ==
    [][(call.fn \in FifoFunctions /\ (NullArgument(call) \/ BadLength(call)))
         => /\ bus' = bus
            /\ regs' = regs
            /\ fifo_buffer' = fifo_buffer
            /\ call'.log = <<>>
            /\ call'.out = 0
            /\ Running => call'.ret = ArgumentError(call)]_vars

C27_Witness ==
    /\ Returned("bmi270_read_fifo_data")
    /\ call.ret = "ESP_ERR_INVALID_SIZE"
    /\ call.arg.length = 2049
    /\ call.log = <<>>
    /\ hist.ncalls = 2
    /\ Len(fifo_buffer) = 13

\* the registers the call has accessed, in order
LogRegs == [i \in 1..Len(call.log) |-> call.log[i].reg]

\* C28: a bmi270_configure_fifo that returns ESP_OK has written, in this
\* order, FIFO_CONFIG_0, FIFO_CONFIG_1 and, only for a watermark above 0,
\* FIFO_WTM_0 and FIFO_WTM_1; for a watermark of 0 it has made exactly two
\* writes and both watermark registers hold what they held before the call.
C28_ConfigureWriteOrder ==
    (Returned("bmi270_configure_fifo") /\ call.ret = "ESP_OK") =>
        /\ \A i \in 1..Len(call.log) : call.log[i].op = "write"
        /\ IF call.arg.config.watermark > 0
           THEN LogRegs = <<BMI270_REG_FIFO_CONFIG_0, BMI270_REG_FIFO_CONFIG_1,
                            BMI270_REG_FIFO_WTM_0, BMI270_REG_FIFO_WTM_1>>
           ELSE /\ LogRegs = <<BMI270_REG_FIFO_CONFIG_0,
                               BMI270_REG_FIFO_CONFIG_1>>
                /\ regs[BMI270_REG_FIFO_WTM_0]
                     = hist.regs0[BMI270_REG_FIFO_WTM_0]
                /\ regs[BMI270_REG_FIFO_WTM_1]
                     = hist.regs0[BMI270_REG_FIFO_WTM_1]

C28_Witness ==
    /\ Returned("bmi270_configure_fifo")
    /\ call.ret = "ESP_OK"
    /\ call.arg.config.watermark = 0
    /\ Len(call.log) = 2
    /\ regs[BMI270_REG_FIFO_WTM_0] = 255
    /\ regs[BMI270_REG_FIFO_WTM_1] = 7

\* bit number n of byte v is set
BitSet(v, n) == (v \div (2 ^ n)) % 2 = 1

\* the bit of INT_MAP_DATA the claim names for the pin of the call
ClaimedMapBit == IF call.arg.int_pin = BMI270_INT_PIN_1 THEN 1 ELSE 5

\* C29: after bmi270_enable_fifo_watermark_interrupt returns ESP_OK,
\* INT_MAP_DATA is what it was before the call with bit 1 (INT1) or bit 5
\* (INT2) set and every other bit as before, no other register has changed,
\* and a call made when the bit is already set (a second call for the same
\* pin) leaves the value as it is.
C29_MapReadModifyWrite ==
    (Returned("bmi270_enable_fifo_watermark_interrupt")
     /\ call.ret = "ESP_OK") =>
        LET old == hist.regs0[BMI270_REG_INT_MAP_DATA]
            new == regs[BMI270_REG_INT_MAP_DATA]
        IN  /\ BitSet(new, ClaimedMapBit)
            /\ \A n \in 0..7 \ {ClaimedMapBit} : BitSet(new, n) = BitSet(old, n)
            /\ new \in 0..255
            /\ BitSet(old, ClaimedMapBit) => new = old
            /\ \A r \in ChipRegs \ {BMI270_REG_INT_MAP_DATA} :
                   regs[r] = hist.regs0[r]

C29_Witness ==
    /\ Returned("bmi270_enable_fifo_watermark_interrupt")
    /\ call.ret = "ESP_OK"
    /\ call.arg.int_pin = BMI270_INT_PIN_2
    /\ hist.ncalls = 2
    /\ hist.regs0[BMI270_REG_INT_MAP_DATA] = 100
    /\ regs[BMI270_REG_INT_MAP_DATA] = 100

(***************************************************************************)
(* examples/stage5_fifo/step2_multi_frames: parse_fifo_buffer and          *)
(* parse_frame, which read the buffer in slots of 13 bytes.                *)
(***************************************************************************)
FIFO_FRAME_SIZE_HEADER == 13
FIFO_HEADER_ACC_GYR == 140
FIFO_HEADER_SKIP == 64
FIFO_HEADER_CONFIG == 72

\* g_total_frames, g_valid_frames, g_skip_frames, g_config_frames
Step2Counts == [g_total_frames |-> 0, g_valid_frames |-> 0,
                g_skip_frames |-> 0, g_config_frames |-> 0]

\* mutant: the accelerometer is taken from bytes 1-6, the gyroscope from 7-12
parse_frame_accFirst(buf, ptr, c) ==
    LET header == buf[ptr + 1]
    IN  IF header = FIFO_HEADER_CONFIG
          THEN [ret |-> "ESP_FAIL", printed |-> <<>>,
                counts |-> [c EXCEPT !.g_config_frames = @ + 1]]
        ELSE IF header = FIFO_HEADER_SKIP
          THEN [ret |-> "ESP_FAIL", printed |-> <<>>,
                counts |-> [c EXCEPT !.g_skip_frames = @ + 1]]
        ELSE IF header # FIFO_HEADER_ACC_GYR
          THEN [ret |-> "ESP_FAIL", printed |-> <<>>, counts |-> c]
        ELSE [ret |-> "ESP_OK",
              printed |-> <<[acc |-> ParseXYZ(buf, ptr, 1, 0),
                             gyr |-> ParseXYZ(buf, ptr, 7, 0)]>>,
              counts |-> [c EXCEPT !.g_valid_frames = @ + 1]]

\* parse_frame(frame_data, timestamp_us), frame_data = &buf[ptr]: its return
\* value, the statistics after it and the sample it prints
parse_frame(buf, ptr, c) ==
    LET header == buf[ptr + 1]
    IN  IF header = FIFO_HEADER_CONFIG
          THEN [ret |-> "ESP_FAIL", printed |-> <<>>,
                counts |-> [c EXCEPT !.g_config_frames = @ + 1]]
        ELSE IF header = FIFO_HEADER_SKIP
          THEN [ret |-> "ESP_FAIL", printed |-> <<>>,
                counts |-> [c EXCEPT !.g_skip_frames = @ + 1]]
        ELSE IF header # FIFO_HEADER_ACC_GYR
          THEN [ret |-> "ESP_FAIL", printed |-> <<>>, counts |-> c]
        ELSE [ret |-> "ESP_OK",
              printed |-> <<[gyr |-> ParseXYZ(buf, ptr, 1, 0),
                             acc |-> ParseXYZ(buf, ptr, 7, 0)]>>,
              counts |-> [c EXCEPT !.g_valid_frames = @ + 1]]

\* the FIFO holds fifo_buffer when app_main queries its length
Step2Init ==
    /\ fifo_buffer \in Buffers
    /\ buffer_ptr = 0
    /\ remaining = 0
    /\ frame = [type |-> 0, acc |-> RawZero, gyr |-> RawZero]
    /\ ret = "none"
    /\ pc = "step2_read"
    /\ entry = NoEntry(frame)
    /\ reads = {}
    /\ delivered = <<>>
    /\ counts = Step2Counts
    /\ dev = [initialized |-> TRUE, init_complete |-> TRUE]
    /\ regs = ResetRegs
    /\ call = NoCall
    /\ bus = BusIdle
    /\ gpio_evt_queue = 0
    /\ hist = [NoHist EXCEPT !.app = "step2"]

\* app_main: if (fifo_length >= FIFO_FRAME_SIZE_HEADER) the bytes are read
\* and parse_fifo_buffer(fifo_buffer, fifo_length) starts
Step2Read ==
    /\ pc = "step2_read"
    /\ IF Len(fifo_buffer) >= FIFO_FRAME_SIZE_HEADER
       THEN /\ pc' = "step2_parse"
            /\ hist' = [hist EXCEPT
                  !.fifo_length = Len(fifo_buffer),
                  !.num_frames = Len(fifo_buffer) \div FIFO_FRAME_SIZE_HEADER,
                  !.i = 0, !.valid_count = 0]
       ELSE /\ pc' = "step2_idle"
            /\ hist' = [hist EXCEPT !.fifo_length = Len(fifo_buffer)]
    /\ UNCHANGED <<fifo_buffer, decvars, dev, regs, call, bus, gpio_evt_queue>>

\* one iteration of for (i = 0; i < num_frames; i++)
Step2Frame ==
    /\ pc = "step2_parse"
    /\ hist.i < hist.num_frames
    /\ \E r \in {parse_frame(fifo_buffer, hist.i * FIFO_FRAME_SIZE_HEADER,
                             [counts EXCEPT !.g_total_frames = @ + 1])} :
         /\ ret' = r.ret
         /\ counts' = r.counts
         /\ delivered' = delivered \o r.printed
         /\ hist' = [hist EXCEPT
               !.i = @ + 1,
               !.valid_count = IF r.ret = "ESP_OK" THEN @ + 1 ELSE @]
    /\ buffer_ptr' = hist.i * FIFO_FRAME_SIZE_HEADER
    /\ UNCHANGED <<fifo_buffer, remaining, frame, pc, entry, reads, dev, regs,
                   call, bus, gpio_evt_queue>>

\* the loop of parse_fifo_buffer ends
Step2End ==
    /\ pc = "step2_parse"
    /\ ~(hist.i < hist.num_frames)
    /\ pc' = "step2_done"
    /\ UNCHANGED <<fifo_buffer, decvars, hwvars>>

Step2Next == Step2Read \/ Step2Frame \/ Step2End

Step2Spec == Step2Init /\ [][Step2Next]_vars

\* b, from offset i on, is made of complete ACC+GYR frames and of 0x40 and
\* 0x48 frames (one byte each, as bmi270_parse_fifo_frame takes them), and
\* may end inside an ACC+GYR frame
RECURSIVE CombinedStreamFrom(_, _)
CombinedStreamFrom(b, i) ==
    IF i >= Len(b) THEN TRUE
    ELSE IF b[i + 1] \in {64, 72} THEN CombinedStreamFrom(b, i + 1)
    ELSE IF b[i + 1] = 140
      THEN i + 13 > Len(b) \/ CombinedStreamFrom(b, i + 13)
    ELSE FALSE

\* the complete ACC+GYR frames of such a stream, in order
RECURSIVE CompleteCombined(_, _)
CompleteCombined(b, i) ==
    IF i >= Len(b) THEN <<>>
    ELSE IF b[i + 1] \in {64, 72} THEN CompleteCombined(b, i + 1)
    ELSE IF i + 13 > Len(b) THEN <<>>
    ELSE <<[gyr |-> XYZAt(b, i + 2), acc |-> XYZAt(b, i + 8)]>>
         \o CompleteCombined(b, i + 13)

\* C30: when the step2 reader has gone through a FIFO read made of ACC+GYR
\* frames with 0x40 and 0x48 frames in between, of any length, the frames it
\* has reported as valid are all the complete ACC+GYR frames of the read.
C30_Step2LosesNoFrame ==
    (pc = "step2_done" /\ CombinedStreamFrom(fifo_buffer, 0)) =>
        /\ delivered = CompleteCombined(fifo_buffer, 0)
        /\ counts.g_valid_frames = Len(CompleteCombined(fifo_buffer, 0))


(***************************************************************************)
(* The handoff from the interrupt handler to the task (stage5_fifo).       *)
(***************************************************************************)
\* C31: the queue between the interrupt handler and the task never holds
\* more than 10 tokens; an edge that finds it full leaves it full and
\* changes nothing of the task, the driver call or the bus; the task takes
\* tokens one at a time, only in xQueueReceive, and between receiving a
\* token and waiting again it makes exactly one FIFO length query.
C31_BoundedHandoff ==
    /\ [](gpio_evt_queue \in 0..QueueLength)
    /\ [](hist.wake = "token" =>
            hist.queries = IF pc = "q_len" /\ call.ret = "none" THEN 0 ELSE 1)
    /\ [][/\ gpio_evt_queue' < gpio_evt_queue =>
               /\ gpio_evt_queue' = gpio_evt_queue - 1
               /\ pc = "wait"
               /\ pc' = "q_len"
          /\ (hist'.dropped /\ ~hist.dropped) =>
               /\ gpio_evt_queue = QueueLength
               /\ gpio_evt_queue' = QueueLength
               /\ UNCHANGED <<bus, call, regs, dev, fifo_buffer, pc, decvars>>
         ]_vars

\* an edge was dropped on a full queue while a driver call of the task was
\* on the bus, and the call went on
C31_Witness ==
    /\ hist.dropped
    /\ gpio_evt_queue = QueueLength
    /\ hist.wake = "token"
    /\ hist.queries = 1
    /\ hist.edge = "xfer"
    /\ bus.phase = "settle"
    /\ pc = "q_read"


(***************************************************************************)
(* More on bmi270_parse_fifo_frame: what a call reads and what it writes.  *)
(***************************************************************************)
\* C32: a call of the decoder reads only inside the cursor it was given:
\* every index it reads is below the remaining length at entry; it reads
\* nothing when an argument is NULL or the cursor is empty, index 0 alone
\* before the size check, indices 1..6 only when at least 7 bytes remain and
\* indices 7..12 only when at least 13 bytes remain.
C32_ReadsInsideCursor ==
    entry.called =>
        /\ \A i \in reads : i < entry.length
        /\ reads \subseteq 0..12
        /\ (~entry.valid \/ entry.length = 0) => reads = {}
        /\ (reads \cap (1..6) # {}) => entry.length >= 7
        /\ (reads \cap (7..12) # {}) => entry.length >= 13
        /\ entry.ptr + entry.length = Len(fifo_buffer)

\* a combined frame that fills the cursor exactly: index 12 is read and is
\* the last byte of the buffer
C32_Witness ==
    /\ Decoded
    /\ entry.length = 13
    /\ entry.ptr > 0
    /\ reads = 0..12
    /\ ret = "ESP_OK"
    /\ remaining = 0


\* C33: in the consumer loop every bulk read asks for 1..2047 bytes, the
\* length the query of the batch reported: a query that reports 0 is
\* followed by no bulk read, the buffer never holds more than its 2048
\* bytes, and bmi270_read_fifo_data never returns ESP_ERR_INVALID_ARG or
\* ESP_ERR_INVALID_SIZE.
C33_BulkReadLengthInRange ==
    /\ call.fn = "bmi270_read_fifo_data" =>
         /\ pc = "q_read"
         /\ call.arg.length \in 1..(BMI270_FIFO_SIZE - 1)
         /\ call.arg.length = hist.batch_len
         /\ call.ret \notin {"ESP_ERR_INVALID_ARG", "ESP_ERR_INVALID_SIZE"}
    /\ pc = "q_read" => hist.batch_len \in 1..(BMI270_FIFO_SIZE - 1)
    /\ hist.batch_len = 0 => (pc = "wait" /\ call.fn = "none" /\ ~OnBus)
    /\ Len(fifo_buffer) <= BMI270_FIFO_SIZE

\* a bulk read of a whole watermark's worth of bytes has succeeded
C33_Witness ==
    /\ pc = "q_read"
    /\ call.fn = "bmi270_read_fifo_data"
    /\ call.ret = "ESP_OK"
    /\ call.arg.length = FIFO_WATERMARK
    /\ Len(fifo_buffer) = FIFO_WATERMARK


\* C34: a call writes only the sub-samples the frame carries: an ACC frame
\* leaves gyr of the output frame as it was at entry, a GYR frame leaves acc
\* as it was, and a special frame (0x40, 0x44, 0x48) or an unknown header
\* leaves both as they were, whatever they held (values of an earlier call
\* or uninitialised memory).
C34_OnlyCarriedFieldsWritten ==
    (Decoded /\ entry.length > 0) =>
        /\ EntryByte(0) = 132 => frame.gyr = entry.frame.gyr
        /\ EntryByte(0) = 136 => frame.acc = entry.frame.acc
        /\ EntryByte(0) \notin DataHeaders =>
             /\ frame.acc = entry.frame.acc
             /\ frame.gyr = entry.frame.gyr

\* an ACC frame decoded into a frame that still held the gyr values of the
\* combined frame decoded before it
C34_Witness ==
    /\ Decoded /\ entry.length >= 7 /\ EntryByte(0) = 132
    /\ ret = "ESP_OK"
    /\ frame.type = 132
    /\ entry.frame.type = 140
    /\ frame.acc = [x |-> 1, y |-> -32768, z |-> 32767]
    /\ entry.frame.acc = [x |-> -1, y |-> 2, z |-> 256]
    /\ frame.gyr = [x |-> 1, y |-> -32768, z |-> 32767]


DecodeErrors == {"ESP_ERR_INVALID_SIZE", "ESP_ERR_INVALID_RESPONSE"}

SelectedFlags(config, reg) ==
    IF reg = BMI270_REG_FIFO_CONFIG_0
    THEN {f \in {"BMI270_FIFO_STOP_ON_FULL"} : config.stop_on_full}
    ELSE {f \in {"BMI270_FIFO_ACC_EN", "BMI270_FIFO_GYR_EN",
                 "BMI270_FIFO_HEADER_EN"} :
            \/ f = "BMI270_FIFO_ACC_EN" /\ config.acc_enable
            \/ f = "BMI270_FIFO_GYR_EN" /\ config.gyr_enable
            \/ f = "BMI270_FIFO_HEADER_EN" /\ config.header_enable}

\* C36: bmi270_configure_fifo overwrites FIFO_CONFIG_0 and FIFO_CONFIG_1:
\* after a successful call they hold the flags the config selects and no
\* other, whatever they held before the call; and a successful call that
\* follows a successful call with the same config leaves every register as
\* the first call left it.
C36_ConfigureOverwrites ==
    (Returned("bmi270_configure_fifo") /\ call.ret = "ESP_OK") =>
        /\ \A r \in {BMI270_REG_FIFO_CONFIG_0, BMI270_REG_FIFO_CONFIG_1} :
             regs[r] = SelectedFlags(call.arg.config, r)
        /\ hist.last_cfg = <<call.arg.config>> => regs = hist.regs0

\* a call that cleared what an earlier call had set in both registers
C36_Witness ==
    /\ Returned("bmi270_configure_fifo") /\ call.ret = "ESP_OK"
    /\ hist.regs0[BMI270_REG_FIFO_CONFIG_0] = {"BMI270_FIFO_STOP_ON_FULL"}
    /\ Cardinality(hist.regs0[BMI270_REG_FIFO_CONFIG_1]) = 3
    /\ regs[BMI270_REG_FIFO_CONFIG_0] = {}
    /\ regs[BMI270_REG_FIFO_CONFIG_1] = {}

\* the second of two successful calls with the same config
C36_WitnessTwice ==
    /\ Returned("bmi270_configure_fifo") /\ call.ret = "ESP_OK"
    /\ hist.last_cfg = <<call.arg.config>>
    /\ call.arg.config.watermark = 512
    /\ Cardinality(regs[BMI270_REG_FIFO_CONFIG_1]) = 2
    /\ regs = hist.regs0


(***************************************************************************)
(* The two parsers of the repository on the same bytes: parse_fifo_buffer  *)
(* of the step2 example first, then the loop of stage5_fifo around         *)
(* bmi270_parse_fifo_frame.                                                *)
(***************************************************************************)
\* buffer_ptr = fifo_buffer; remaining = fifo_length; before the decoder
\* loop, on the buffer the step2 parser is done with (or did not parse,
\* when it held less than one frame)
EquivStart ==
    /\ pc \in {"step2_done", "step2_idle"}
    /\ pc' = "loop"
    /\ buffer_ptr' = 0
    /\ remaining' = Len(fifo_buffer)
    /\ counts' = ZeroCounts
    /\ delivered' = <<>>
    /\ hist' = [hist EXCEPT !.step2_out = delivered]
    /\ UNCHANGED <<fifo_buffer, frame, ret, entry, reads, dev, regs, call,
                   bus, gpio_evt_queue>>

EquivNext ==
    \/ Step2Read \/ Step2Frame \/ Step2End
    \/ EquivStart \/ ParseFrames \/ LoopEnd

EquivSpec == Step2Init /\ [][EquivNext]_vars

\* b is made of complete ACC+GYR frames and of nothing else
OnlyCombinedFrames(b) ==
    /\ Len(b) % 13 = 0
    /\ \A k \in 0..((Len(b) \div 13) - 1) : b[13 * k + 1] = 140

\* the (gyr, acc) samples of such a buffer, by the frame table
CombinedSamples(b) ==
    [k \in 1..(Len(b) \div 13) |->
        [gyr |-> XYZAt(b, 13 * (k - 1) + 2), acc |-> XYZAt(b, 13 * (k - 1) + 8)]]

\* the (gyr, acc) samples of the frames the decoder loop has returned
LoopSamples ==
    [k \in 1..Len(delivered) |->
        [gyr |-> delivered[k].gyr, acc |-> delivered[k].acc]]

\* C37: on a buffer of k complete 0x8C frames and nothing else, the step2
\* fixed-stride parser and the decoder loop around bmi270_parse_fifo_frame
\* produce the same k (gyr, acc) samples in the same order, the samples of
\* the k frames.
C37_ParsersAgree ==
    (pc = "done" /\ OnlyCombinedFrames(fifo_buffer)) =>
        /\ LoopSamples = hist.step2_out
        /\ Len(hist.step2_out) = Len(fifo_buffer) \div 13
        /\ hist.step2_out = CombinedSamples(fifo_buffer)
        /\ \A k \in 1..Len(delivered) : delivered[k].type = 140

\* both parsers are done with two different frames
C37_Witness ==
    /\ pc = "done"
    /\ OnlyCombinedFrames(fifo_buffer)
    /\ Len(fifo_buffer) = 26
    /\ Len(hist.step2_out) = 2
    /\ hist.step2_out[1] # hist.step2_out[2]
    /\ hist.step2_out[1].gyr # hist.step2_out[1].acc
    /\ LoopSamples = hist.step2_out

=============================================================================
